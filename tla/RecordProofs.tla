---------------------------- MODULE RecordProofs ----------------------------
(***************************************************************************)
(* Proofs about what a run records before and beside its rounds: the brief   *)
(* and the start of a run (Briefing), and the trace of its steps (StepBus).  *)
(*                                                                         *)
(* Briefing, for every set of words, of questions and of intake faults, and  *)
(* both storage profiles: BriefIsHonest is a fact about the brief's           *)
(* definition, StartsAreAccounted needs what each stage has done before:     *)
(* StageFacts says it.                                                      *)
(*                                                                         *)
(* StepBus, for any threads and scripts: BusInductive, below.               *)
(***************************************************************************)
EXTENDS Briefing, StepBus, TLAPS, FiniteSetTheorems, WellFoundedInduction

Unborn == {"validate", "compose", "open", "create"}
Unwritten == Unborn \cup {"retrieve", "fetch", "build", "refresh", "announce"}
Handing == {"write", "hand over", "rewrite", "rebuild", "decide", "departments"}
Briefed == {"refresh", "announce"} \cup Handing

\* The last checkpoint is one the departments may start from.
Sound(checkpoints) ==
  /\ checkpoints # <<>>
  /\ checkpoints[Len(checkpoints)].handoff \in Allowed
  /\ checkpoints[Len(checkpoints)].brief = Brief
  /\ checkpoints[Len(checkpoints)].matrix = Questions

StageFacts ==
  /\ stage \in Unborn => ~ stored.run
  /\ stage \in Unwritten => stored.checkpoints = <<>> /\ announced = 0
  /\ stage \in Unborn \cup {"retrieve", "fetch", "build"} => context.brief = NoBrief
  /\ stage \in Unborn \cup {"retrieve", "fetch"} => site = NoSite
  /\ stage \notin Unborn \cup {"retrieve", "fetch", "fail", "failed", "raised"} =>
       site \in Answer
  /\ stage \in Briefed => context.brief = Brief /\ context.matrix = Questions
  /\ stage \in Handing => announced = 1
  /\ stage \in (Unwritten \ Unborn) \cup Handing => stored.run = Production
  /\ stage \notin {"validate", "failed", "raised"} => request.faults = {}
  /\ context.brief # NoBrief => site \in Answer
  /\ stage = "rewrite" => context.handoff \in Allowed
  /\ stage = "rebuild" => (checkpoint = "yes" => Sound(stored.checkpoints))
  /\ stage \in {"decide", "departments"} =>
       (context.handoff \in Allowed =>
          checkpoint = "yes" /\ Sound(stored.checkpoints))
  /\ stage = "departments" => context.handoff \in Allowed

Refused ==
  stage = "failed" =>
    /\ result # NoResult
    /\ result.exported <=> result.code = None
    /\ ~ result.exported =>
         stored.checkpoints = <<>> /\ ~ stored.run /\ announced = 0
    /\ result.phase = "intake_validation" /\ request.faults # {} =>
         \E fault \in request.faults : result.code = RejectionCode(fault)
    /\ request.faults # {} => result.phase = "intake_validation"

IInv == TypeOK /\ StageFacts /\ Refused

-----------------------------------------------------------------------------

LEMMA CodeFacts == \A i \in DOMAIN Checks : RejectionCode(Checks[i]) # None
BY DEF Checks, NameChecks, DomainChecks, RejectionCode, None

\* Whatever the page: the brief says what it supports.
LEMMA HonestBrief ==
  ASSUME NEW name, NEW argument, NEW s \in Answer
  PROVE  Honest(name, s, IntakeBrief(name, argument, s))
<1> DEFINE b == IntakeBrief(name, argument, s)
<1>1. CASE s.answer # "page"
  BY <1>1 DEF Honest, IntakeBrief, Answer, Page, NoPage, Refusal, Reachable, IdentityConfidence, IdentityConflict, IndustryConfidence, DomainMismatch, Readiness, RoutingGaps, Evidence, MissingEvidence, MessageStatus, ResearchErrors, ResearchWarnings
<1>2. CASE s.answer = "page"
  BY <1>2 DEF Honest, IntakeBrief, Answer, Page, NoPage, Refusal, Reachable, IdentityConfidence, IdentityConflict, IndustryConfidence, DomainMismatch, Readiness, RoutingGaps, Evidence, MissingEvidence, MessageStatus, FinalHost, ExpectedHost
<1>3. QED BY <1>1, <1>2

LEMMA BriefIsNoNoBrief ==
  ASSUME NEW name, NEW argument, NEW s
  PROVE  IntakeBrief(name, argument, s) # NoBrief
BY DEF IntakeBrief, NoBrief, MessageStatus, None

LEMMA InitIInv == Init => IInv
<1> SUFFICES ASSUME Init PROVE IInv
  OBVIOUS
<1>1. TypeOK
  <2>1. context \in [phase : Phase, status : Status, brief : {NoBrief, Brief},
                     matrix : {{}, Questions}, handoff : Handoff, last : LastCheckpoint]
    BY DEF Init, Handoff, Allowed, None, Phase, Status, LastCheckpoint
  <2>2. stored \in [run : BOOLEAN, checkpoints : Seq(StoredSnapshot)]
    BY DEF Init
  <2> QED BY <2>1, <2>2 DEF Init, TypeOK, Stage
<1>2. StageFacts
  BY DEF Init, StageFacts, Unborn, Unwritten, Handing, Briefed
<1>3. Refused
  BY DEF Init, Refused
<1> QED BY <1>1, <1>2, <1>3 DEF IInv

\* What the failed results before the run exists have in common.
LEMMA RefuseStep ==
  ASSUME IInv, stage \in Unborn, NEW phase, NEW code, Refuse(phase, code),
         code # None,
         phase # "intake_validation" => request.faults = {},
         request.faults # {} => \E fault \in request.faults : code = RejectionCode(fault),
         UNCHANGED <<request, site, context, checkpoint, stored, announced>>
  PROVE  IInv'
<1>1. TypeOK'
  BY DEF IInv, TypeOK, Refuse, Stage, Brief, StoredSnapshot
<1>2. StageFacts'
  BY DEF IInv, StageFacts, Refuse, Unborn, Unwritten, Handing, Briefed
<1>3. Refused'
  BY DEF IInv, StageFacts, Refused, Refuse, NoResult, Unborn, Unwritten
<1> QED BY <1>1, <1>2, <1>3 DEF IInv

LEMMA ValidateStep == ASSUME IInv, Validate PROVE IInv'
<1>1. ASSUME NEW code \in FirstCodes(request.faults), Refuse("intake_validation", code)
      PROVE  IInv'
  <2>1. code # None /\ \E fault \in request.faults : code = RejectionCode(fault)
    BY <1>1, CodeFacts DEF FirstCodes
  <2> QED BY <1>1, <2>1, RefuseStep DEF Validate, Unborn
<1>2. ASSUME request.faults = {}, NEW resolution \in Resolution,
             Refuse("intake_validation", ResolutionCode(resolution))
      PROVE  IInv'
  BY <1>2, RefuseStep DEF Validate, Unborn, ResolutionCode, None
<1>3. CASE request.faults = {} /\ stage' = "compose" /\ UNCHANGED result
  <2>1. TypeOK'
    BY <1>3 DEF IInv, TypeOK, Validate, Stage, Brief, StoredSnapshot
  <2>2. StageFacts'
    BY <1>3 DEF IInv, StageFacts, Validate, Unborn, Unwritten, Handing, Briefed
  <2>3. Refused'
    BY <1>3 DEF Refused
  <2> QED BY <2>1, <2>2, <2>3 DEF IInv
<1> QED BY <1>1, <1>2, <1>3 DEF Validate

LEMMA ComposeStep == ASSUME IInv, Compose \/ OpenStores PROVE IInv'
<1>0. request.faults = {} /\ stage \in Unborn
  BY DEF IInv, StageFacts, Compose, OpenStores, Unborn
<1>1. ASSUME NEW phase, NEW code, Refuse(phase, code), code # None,
             UNCHANGED <<request, site, context, checkpoint, stored, announced>>
      PROVE  IInv'
  BY <1>0, <1>1, RefuseStep
<1>2. CASE stage' \in {"open", "create"}
  <2>1. TypeOK'
    BY <1>2 DEF IInv, TypeOK, Compose, OpenStores, Stage, Brief, StoredSnapshot
  <2>2. StageFacts'
    BY <1>2 DEF IInv, StageFacts, Compose, OpenStores, Unborn, Unwritten, Handing, Briefed
  <2>3. Refused'
    BY <1>2 DEF Refused
  <2> QED BY <2>1, <2>2, <2>3 DEF IInv
<1> QED BY <1>1, <1>2 DEF Compose, OpenStores, Health, None

LEMMA CreateRunStep == ASSUME IInv, CreateRun PROVE IInv'
<1>1. TypeOK'
  <2>1. Brief' = Brief /\ StoredSnapshot' = StoredSnapshot
    BY DEF CreateRun, Brief, StoredSnapshot
  <2>2. PICK phase \in {"initialized", "initialize"} :
          context' = [context EXCEPT !.phase = phase]
    BY DEF CreateRun
  <2>3. context' \in [phase : Phase, status : Status, brief : {NoBrief, Brief},
                      matrix : {{}, Questions}, handoff : Handoff, last : LastCheckpoint]
    BY <2>2 DEF IInv, TypeOK, Phase, Status, LastCheckpoint
  <2>4. stored' \in [run : BOOLEAN, checkpoints : Seq(StoredSnapshot)]
    BY BriefingAssumption DEF IInv, TypeOK, CreateRun, InsertRun
  <2> QED BY <2>1, <2>3, <2>4 DEF IInv, TypeOK, CreateRun, InsertRun, Raise, Stage
<1>2. StageFacts'
  BY DEF IInv, TypeOK, StageFacts, CreateRun, InsertRun, Raise, Unborn, Unwritten, Handing, Briefed
<1>3. Refused'
  BY DEF Refused, CreateRun, InsertRun, Raise
<1> QED BY <1>1, <1>2, <1>3 DEF IInv

LEMMA RetrieveStep == ASSUME IInv, RetrieveInitial PROVE IInv'
<1>1. TypeOK'
  <2>1. Brief' = Brief /\ StoredSnapshot' = StoredSnapshot
    BY DEF RetrieveInitial, Brief, StoredSnapshot
  <2>2. PICK phase \in {"supervisor_brief", "initialize"} :
          context' = [context EXCEPT !.phase = phase]
    BY DEF RetrieveInitial
  <2>3. context' \in [phase : Phase, status : Status, brief : {NoBrief, Brief},
                      matrix : {{}, Questions}, handoff : Handoff, last : LastCheckpoint]
    BY <2>2 DEF IInv, TypeOK, Phase, Status, LastCheckpoint
  <2> QED BY <2>1, <2>3 DEF IInv, TypeOK, RetrieveInitial, Raise, Stage
<1>2. StageFacts'
  BY DEF IInv, TypeOK, StageFacts, RetrieveInitial, Raise, Unborn, Unwritten, Handing, Briefed
<1>3. Refused'
  BY DEF Refused, RetrieveInitial, Raise
<1> QED BY <1>1, <1>2, <1>3 DEF IInv

LEMMA FetchStep == ASSUME IInv, FetchSite PROVE IInv'
<1>0. /\ context.brief = NoBrief /\ stored.checkpoints = <<>>
      /\ stage' = "build" /\ site' \in Answer
  BY DEF IInv, StageFacts, FetchSite, Unborn, Unwritten
<1>1. TypeOK'
  <2>1. stored \in [run : BOOLEAN, checkpoints : Seq(StoredSnapshot')]
    BY <1>0 DEF IInv, TypeOK
  <2>2. context \in [phase : Phase, status : Status, brief : {NoBrief, Brief'},
                     matrix : {{}, Questions}, handoff : Handoff, last : LastCheckpoint]
    BY <1>0 DEF IInv, TypeOK
  <2> QED BY <1>0, <2>1, <2>2 DEF IInv, TypeOK, FetchSite, Stage
<1>2. StageFacts'
  BY <1>0 DEF IInv, StageFacts, FetchSite, Unborn, Unwritten, Handing, Briefed
<1>3. Refused'
  BY <1>0 DEF Refused
<1> QED BY <1>1, <1>2, <1>3 DEF IInv

LEMMA BuildStep == ASSUME IInv, BuildBrief PROVE IInv'
<1>1. TypeOK'
  BY DEF IInv, TypeOK, BuildBrief, Stage, Brief, StoredSnapshot
<1>2. StageFacts'
  BY DEF IInv, TypeOK, StageFacts, BuildBrief, Brief, Unborn, Unwritten, Handing, Briefed
<1>3. Refused'
  BY DEF Refused, BuildBrief
<1> QED BY <1>1, <1>2, <1>3 DEF IInv

LEMMA RefreshStep == ASSUME IInv, Refresh PROVE IInv'
<1>1. TypeOK'
  BY DEF IInv, TypeOK, Refresh, Raise, Stage, Brief, StoredSnapshot
<1>2. StageFacts'
  BY DEF IInv, TypeOK, StageFacts, Refresh, Raise, Brief, Unborn, Unwritten, Handing, Briefed
<1>3. Refused'
  BY DEF Refused, Refresh, Raise
<1> QED BY <1>1, <1>2, <1>3 DEF IInv

LEMMA AnnounceStep == ASSUME IInv, Announce PROVE IInv'
<1>0. /\ stage = "announce" /\ announced = 0 /\ announced' = 1
      /\ stage' \in {"write", "fail"}
      /\ UNCHANGED <<request, site, context, checkpoint, stored>>
  BY DEF IInv, StageFacts, Announce, Raise, Unwritten
<1>1. TypeOK'
  BY <1>0 DEF IInv, TypeOK, Stage, Brief, StoredSnapshot
<1>2. StageFacts'
  BY <1>0 DEF IInv, StageFacts, Brief, Unborn, Unwritten, Handing, Briefed
<1>3. Refused'
  BY <1>0 DEF Refused
<1> QED BY <1>1, <1>2, <1>3 DEF IInv

\* A write keeps what is stored, or puts the present context behind it; it is
\* known to have succeeded only then.
LEMMA WriteFacts ==
  ASSUME IInv, NEW next, WriteCheckpoint(next, next), stage \in Handing,
         UNCHANGED <<request, site>>
  PROVE  /\ stored' \in [run : BOOLEAN, checkpoints : Seq(StoredSnapshot)]
         /\ stored'.run = stored.run
         /\ stage' = next
         /\ checkpoint' = "yes" /\ context.handoff \in Allowed =>
              Sound(stored'.checkpoints)
<1>1. Snapshot \in StoredSnapshot
  BY DEF IInv, TypeOK, Snapshot, StoredSnapshot
<1>2. context.brief = Brief /\ context.matrix = Questions
  BY DEF IInv, StageFacts, Briefed
<1>3. stored.checkpoints \in Seq(StoredSnapshot)
  BY DEF IInv, TypeOK
<1>4. CASE UNCHANGED stored /\ checkpoint' = "no" /\ stage' = next
  BY <1>4 DEF IInv, TypeOK
<1>5. CASE Keep(Snapshot) /\ checkpoint' \in {"yes", "no"} /\ stage' = next
  <2> DEFINE list == IF Production THEN Append(stored.checkpoints, Snapshot)
                     ELSE <<Snapshot>>
  <2>1. /\ list \in Seq(StoredSnapshot) /\ list # <<>>
        /\ list[Len(list)] = Snapshot
    BY <1>1, <1>3
  <2>2. stored' = [stored EXCEPT !.checkpoints = list]
    BY <1>5 DEF Keep
  <2> HIDE DEF list
  <2>3. /\ stored' \in [run : BOOLEAN, checkpoints : Seq(StoredSnapshot)]
        /\ stored'.run = stored.run /\ stored'.checkpoints = list
    BY <2>1, <2>2 DEF IInv, TypeOK
  <2>4. context.handoff \in Allowed => Sound(list)
    BY <1>2, <2>1 DEF Sound, Snapshot
  <2> QED BY <1>5, <2>3, <2>4
<1> QED BY <1>4, <1>5 DEF WriteCheckpoint

LEMMA WriteStep == ASSUME IInv, Write PROVE IInv'
<1>0. stage = "write" /\ stage \in Handing
  BY DEF Write, Handing
<1>1. /\ stored' \in [run : BOOLEAN, checkpoints : Seq(StoredSnapshot)]
      /\ stored'.run = stored.run /\ stage' = "hand over"
  BY <1>0, WriteFacts DEF Write
<1>2. Brief' = Brief /\ StoredSnapshot' = StoredSnapshot
  BY DEF Write, Brief, StoredSnapshot
<1>3. /\ context' \in [phase : Phase, status : Status, brief : {NoBrief, Brief},
                        matrix : {{}, Questions}, handoff : Handoff, last : LastCheckpoint]
      /\ context'.brief = context.brief /\ context'.matrix = context.matrix
  BY DEF IInv, TypeOK, Write, Phase, Status, LastCheckpoint
<1>4. TypeOK'
  BY <1>1, <1>2, <1>3 DEF IInv, TypeOK, Write, Stage
<1>5. StageFacts'
  BY <1>0, <1>1, <1>2, <1>3 DEF IInv, StageFacts, Write, Unborn, Unwritten, Handing, Briefed
<1>6. Refused'
  BY <1>1 DEF Refused
<1> QED BY <1>4, <1>5, <1>6 DEF IInv

LEMMA HandOverStep == ASSUME IInv, HandOver PROVE IInv'
<1>0. stage = "hand over" /\ BuildHandoff \in Handoff
  BY DEF HandOver, BuildHandoff, Handoff, Allowed, Blocked
<1>1. BuildHandoff \in Allowed => checkpoint = "yes"
  BY DEF BuildHandoff, HandoffErrors, Allowed, Blocked
<1>2. /\ context' \in [phase : Phase, status : Status, brief : {NoBrief, Brief},
                        matrix : {{}, Questions}, handoff : Handoff, last : LastCheckpoint]
      /\ context'.brief = context.brief /\ context'.matrix = context.matrix
      /\ context'.handoff = BuildHandoff
  BY <1>0 DEF IInv, TypeOK, HandOver
<1>3. /\ stage' \in {"rewrite", "decide"}
      /\ stage' = "rewrite" <=> BuildHandoff \in Allowed
      /\ UNCHANGED <<request, site, checkpoint, stored, announced, result>>
      /\ Brief' = Brief /\ StoredSnapshot' = StoredSnapshot
  BY DEF HandOver, Brief, StoredSnapshot
<1>4. TypeOK'
  BY <1>2, <1>3 DEF IInv, TypeOK, Stage
<1>5. StageFacts'
  BY <1>0, <1>2, <1>3 DEF IInv, StageFacts, Unborn, Unwritten, Handing, Briefed
<1>6. Refused'
  BY <1>3 DEF Refused
<1> QED BY <1>4, <1>5, <1>6 DEF IInv

LEMMA RewriteStep == ASSUME IInv, Rewrite PROVE IInv'
<1>0. stage = "rewrite" /\ stage \in Handing /\ context.handoff \in Allowed
  BY DEF IInv, StageFacts, Rewrite, Handing
<1>1. /\ stored' \in [run : BOOLEAN, checkpoints : Seq(StoredSnapshot)]
      /\ stored'.run = stored.run /\ stage' = "rebuild"
      /\ checkpoint' = "yes" => Sound(stored'.checkpoints)
  BY <1>0, WriteFacts DEF Rewrite
<1>2. Brief' = Brief /\ StoredSnapshot' = StoredSnapshot
  BY DEF Rewrite, Brief, StoredSnapshot
<1>3. TypeOK'
  BY <1>1, <1>2 DEF IInv, TypeOK, Rewrite, Stage
<1>4. checkpoint' = "yes" => Sound(stored.checkpoints)'
  BY <1>1, <1>2 DEF Sound, Rewrite
<1>5. StageFacts'
  BY <1>0, <1>1, <1>2, <1>4 DEF IInv, StageFacts, Rewrite, Unborn, Unwritten, Handing, Briefed
<1>6. Refused'
  BY <1>1 DEF Refused
<1> QED BY <1>3, <1>5, <1>6 DEF IInv

LEMMA RebuildStep == ASSUME IInv, Rebuild PROVE IInv'
<1>0. stage = "rebuild" /\ BuildHandoff \in Handoff
  BY DEF Rebuild, BuildHandoff, Handoff, Allowed, Blocked
<1>1. BuildHandoff \in Allowed => checkpoint = "yes"
  BY DEF BuildHandoff, HandoffErrors, Allowed, Blocked
<1>2. /\ context' \in [phase : Phase, status : Status, brief : {NoBrief, Brief},
                        matrix : {{}, Questions}, handoff : Handoff, last : LastCheckpoint]
      /\ context'.brief = context.brief /\ context'.matrix = context.matrix
      /\ context'.handoff = BuildHandoff
  BY <1>0 DEF IInv, TypeOK, Rebuild
<1>3. /\ stage' = "decide"
      /\ UNCHANGED <<request, site, checkpoint, stored, announced, result>>
      /\ Brief' = Brief /\ StoredSnapshot' = StoredSnapshot
  BY DEF Rebuild, Brief, StoredSnapshot
<1>4. TypeOK'
  BY <1>2, <1>3 DEF IInv, TypeOK, Stage
<1>5. (context.handoff \in Allowed)' => (checkpoint = "yes" /\ Sound(stored.checkpoints))'
  BY <1>0, <1>1, <1>2, <1>3 DEF IInv, StageFacts, Sound
<1>6. StageFacts'
  BY <1>0, <1>2, <1>3, <1>5 DEF IInv, StageFacts, Unborn, Unwritten, Handing, Briefed
<1>7. Refused'
  BY <1>3 DEF Refused
<1> QED BY <1>4, <1>6, <1>7 DEF IInv

LEMMA DecideStep == ASSUME IInv, Decide PROVE IInv'
<1>0. /\ stage = "decide" /\ stage' \in {"departments", "fail"}
      /\ stage' = "departments" => context.handoff \in Allowed
      /\ UNCHANGED <<request, site, checkpoint, stored, announced, result>>
      /\ Brief' = Brief /\ StoredSnapshot' = StoredSnapshot
  BY DEF Decide, Brief, StoredSnapshot
<1>1. /\ context' \in [phase : Phase, status : Status, brief : {NoBrief, Brief},
                        matrix : {{}, Questions}, handoff : Handoff, last : LastCheckpoint]
      /\ context'.brief = context.brief /\ context'.matrix = context.matrix
      /\ context'.handoff = context.handoff
  <2>1. CASE context.handoff \in Allowed
    BY <2>1 DEF IInv, TypeOK, Decide, Phase, Status, LastCheckpoint
  <2>2. CASE context.handoff \notin Allowed
    <3> DEFINE c == [phase |-> "step1_handoff", status |-> "blocked",
                     brief |-> context.brief, matrix |-> context.matrix,
                     handoff |-> context.handoff, last |-> context.last]
    <3>1. context' = c
      BY <2>2 DEF IInv, TypeOK, Decide
    <3> QED BY <3>1 DEF IInv, TypeOK, Phase, Status, LastCheckpoint
  <2> QED BY <2>1, <2>2
<1>2. TypeOK'
  BY <1>0, <1>1 DEF IInv, TypeOK, Stage
<1>3. Sound(stored.checkpoints) => Sound(stored.checkpoints)'
  BY <1>0 DEF Sound
<1>4. StageFacts'
  BY <1>0, <1>1, <1>3 DEF IInv, StageFacts, Unborn, Unwritten, Handing, Briefed
<1>5. Refused'
  BY <1>0 DEF Refused
<1> QED BY <1>2, <1>4, <1>5 DEF IInv

LEMMA FailStep == ASSUME IInv, Fail PROVE IInv'
<1>0. /\ stage = "fail" /\ stage' \in {"failed", "raised"}
      /\ UNCHANGED <<request, site, checkpoint, stored, announced>>
      /\ stage' = "failed" => result'.exported /\ result'.code = None
      /\ request.faults = {}
      /\ Brief' = Brief /\ StoredSnapshot' = StoredSnapshot
  BY DEF IInv, StageFacts, Fail, Brief, StoredSnapshot
<1>1. /\ context' \in [phase : Phase, status : Status, brief : {NoBrief, Brief},
                        matrix : {{}, Questions}, handoff : Handoff, last : LastCheckpoint]
      /\ context'.brief = context.brief
  BY DEF IInv, TypeOK, Fail, Phase, Status, LastCheckpoint
<1>2. TypeOK'
  BY <1>0, <1>1 DEF IInv, TypeOK, Stage
<1>3. StageFacts'
  BY <1>0, <1>1 DEF IInv, StageFacts, Unborn, Unwritten, Handing, Briefed
<1>4. Refused'
  BY <1>0 DEF Refused, NoResult
<1> QED BY <1>2, <1>3, <1>4 DEF IInv

\* Every call and every failure of one keeps the invariant.
LEMMA StepIInv == IInv /\ [Next]_vars => IInv'
<1>1. IInv /\ Next => IInv'
  BY ValidateStep, ComposeStep, CreateRunStep, RetrieveStep, FetchStep, BuildStep,
     RefreshStep, AnnounceStep, WriteStep, HandOverStep, RewriteStep, RebuildStep,
     DecideStep, FailStep DEF Next
<1>2. IInv /\ UNCHANGED vars => IInv'
  BY DEF vars, IInv, TypeOK, StageFacts, Refused, Brief, StoredSnapshot, Sound
<1> QED BY <1>1, <1>2

LEMMA Always == Spec => []IInv
BY InitIInv, StepIInv, PTL DEF Spec

\* What a run holds before its departments start has its type, for every
\* constant.
THEOREM TypeCorrect == Spec => []TypeOK
BY Always, PTL DEF IInv

\* For every set of words and questions: the brief claims what the homepage
\* supports, however identity, redirect and reachability overlap
\* (build_intake_brief, classify_briefing_readiness).
THEOREM BriefHonest == Spec => []BriefIsHonest
<1>1. IInv => BriefIsHonest
  BY HonestBrief DEF IInv, TypeOK, StageFacts, BriefIsHonest, Brief
<1> QED BY <1>1, Always, PTL

\* For every set of words and questions, in both profiles and whichever calls
\* fail: departments start on a stored, allowed handoff, and a refused start
\* leaves nothing behind (run_pipeline, build_step1_handoff).
THEOREM StartsAccounted == Spec => []StartsAreAccounted
<1>1. IInv => StartsAreAccounted
  BY DEF IInv, StageFacts, Refused, Sound, Brief, StartsAreAccounted, Handing
<1> QED BY <1>1, Always, PTL

-----------------------------------------------------------------------------
(***************************************************************************)
(* The trace.  A thread is somewhere in emit_narrated with a step of its     *)
(* own; no two have steps with the same key (KeysApart), so what one does to  *)
(* the trace and to the positions concerns its own key.                      *)
(***************************************************************************)

Active(t) == at[t] # "idle"
Tracing == {"placing", "appending"}
Describing == {"root", "metering", "describing"}

\* A thread that emits has waited for the steps its own depends on.
Running ==
  \A t \in Threads :
    /\ emitted[t] <= Len(Program(t))
    /\ Active(t) => /\ ~ Finished(t)
                    /\ \A u \in Threads : emitted[u] >= Step(t).waits[u]

\* What was published has a number its emitter has given; the step under way
\* is the latest with its key.
Numbered ==
  /\ IsFiniteSet(published)
  /\ \A e \in published :
       e.emitter < emitter \/ (e.emitter = emitter /\ e.number <= sequence)
  /\ NumbersAreUnique
  /\ \A t \in Threads :
       /\ at[t] = "numbered" =>
            \A e \in published : ~ (e.emitter = emitter /\ e.number = number[t])
       /\ at[t] \in Tracing \cup Describing => EntryOf(t) \in published
       /\ Active(t) =>
            \A e \in published :
              e.emitter = emitter /\ e.key = Step(t).key => e.number <= number[t]

\* The steps of a thread that the trace consumer has yet to place.
Ahead(t) ==
  {i \in DOMAIN Program(t) :
     \/ i > emitted[t] + 1
     \/ i = emitted[t] + 1 /\ at[t] \notin Describing}

Entered(e) == \E i \in DOMAIN trace : trace[i].key = e.key /\ Later(trace[i], e)

KeysOnce == \A i, j \in DOMAIN trace : trace[i].key = trace[j].key => i = j
KeysPlaced == \A i \in DOMAIN trace : positions[trace[i].key] # 0

\* Who appends has found its key nowhere.
Fresh(t) == at[t] = "appending" => positions[Step(t).key] = 0

\* The positions of the steps that are still to be placed are right.  Those of others
\* need not be: two threads that append at once may mix theirs up.
Aimed(t) ==
  \A i \in Ahead(t) :
    positions[Program(t)[i].key] # 0 =>
      trace[positions[Program(t)[i].key]].key = Program(t)[i].key

\* Nobody comes between the two halves of an append whose position is used again.
Alone ==
  at["main"] = "appending" =>
    \A i \in Ahead("main") :
      i # emitted["main"] + 1 /\ Program("main")[i].key = Step("main").key =>
        slot["main"] = Len(trace)

Tracked(e) == Entered(e) \/ \E t \in Threads : at[t] \in Tracing /\ EntryOf(t) = e

Placed ==
  /\ KeysOnce
  /\ KeysPlaced
  /\ \A t \in Threads : Fresh(t) /\ Aimed(t)
  /\ Alone
  /\ \A e \in published : Tracked(e)

Count(places) == Cardinality({t \in Threads : at[t] \in places})

\* A step is counted when it was published and has passed the tracer.
Counted ==
  /\ ~ seen => telemetry.roots = 0
  /\ telemetry.roots <= 1
  /\ telemetry.spans + telemetry.turns + Count({"describing"}) <= telemetry.steps
  /\ telemetry.steps + Count(Tracing \cup {"root", "metering"})
       <= Cardinality({e \in published : e.emitter = emitter})

BusInductive == BusTypeOK /\ Running /\ Numbered /\ Placed /\ Counted

-----------------------------------------------------------------------------
(* Threads and their steps.                                                 *)

LEMMA Programs == ASSUME NEW t \in Threads PROVE Program(t) \in Seq(StepType)
BY ScriptsAssumption DEF Program

LEMMA StepFacts ==
  ASSUME BusTypeOK, Running, NEW t \in Threads, ~ Finished(t)
  PROVE  /\ emitted[t] + 1 \in DOMAIN Program(t)
         /\ emitted[t] + 1 \in Nat
         /\ Step(t) = Program(t)[emitted[t] + 1]
         /\ Step(t) \in StepType
         /\ Step(t).key \in Keys
         /\ EntryOf(t) \in Entry
         /\ EntryOf(t).key = Step(t).key
         /\ EntryOf(t).number = number[t]
         /\ EntryOf(t).emitter = emitter
<1>1. Program(t) \in Seq(StepType) /\ emitted[t] \in Nat
  BY Programs DEF BusTypeOK
<1>2. emitted[t] + 1 \in DOMAIN Program(t)
  BY <1>1 DEF Running, Finished
<1>3. Step(t) \in StepType
  BY <1>1, <1>2 DEF Step
<1>4. Step(t).key \in Keys
  BY <1>3 DEF StepType
<1>5. number[t] \in Nat
  BY DEF BusTypeOK
<1>6. EntryOf(t) \in Entry
  BY <1>4, <1>5 DEF EntryOf, Entry, BusTypeOK
<1> QED BY <1>1, <1>2, <1>3, <1>4, <1>6 DEF EntryOf, Step

\* Two threads have no key in common.
LEMMA KeysApart ==
  ASSUME BusTypeOK, NEW t \in Threads, NEW u \in Threads, t # u,
         NEW i \in DOMAIN Program(t), NEW j \in DOMAIN Program(u)
  PROVE  Program(t)[i].key # Program(u)[j].key
<1>1. CASE emitter = 1
  <2>1. t \in Threads \ {"main"} \/ u \in Threads \ {"main"}
    OBVIOUS
  <2> QED BY <1>1, <2>1, DisciplineAssumption DEF Program
<1>2. CASE emitter = 2
  BY <1>2 DEF Program
<1> QED BY <1>1, <1>2 DEF BusTypeOK

LEMMA ActiveApart ==
  ASSUME BusTypeOK, Running, NEW t \in Threads, NEW u \in Threads, t # u,
         ~ Finished(t), ~ Finished(u)
  PROVE  Step(t).key # Step(u).key
BY StepFacts, KeysApart

\* What a step of one thread leaves alone.
Steady(t) ==
  /\ emitter' = emitter
  /\ \A u \in Threads \ {t} : /\ at'[u] = at[u]
                              /\ emitted'[u] = emitted[u]
                              /\ number'[u] = number[u]
                              /\ slot'[u] = slot[u]

LEMMA AdvanceSteady ==
  ASSUME BusTypeOK, NEW t \in Threads, Advance(t)
  PROVE  Steady(t)
<1> USE DEF BusTypeOK, Steady, Goto, Return
<1>1. CASE Emit(t)
  BY <1>1 DEF Emit, Number
<1>2. CASE Guard(t)
  BY <1>2 DEF Guard
<1>3. CASE Look(t)
  BY <1>3 DEF Look, Store
<1>4. CASE Append_(t)
  BY <1>4 DEF Append_
<1>5. CASE Root(t)
  BY <1>5 DEF Root
<1>6. CASE Swallow(t)
  BY <1>6 DEF Swallow
<1>7. CASE Meter(t)
  BY <1>7 DEF Meter
<1>8. CASE Describe(t)
  BY <1>8 DEF Describe
<1> QED BY <1>1, <1>2, <1>3, <1>4, <1>5, <1>6, <1>7, <1>8 DEF Advance

LEMMA SteadyKeeps ==
  ASSUME NEW t \in Threads, Steady(t)
  PROVE  /\ \A u \in Threads : Program(u)' = Program(u)
         /\ \A u \in Threads \ {t} :
              /\ Active(u)' <=> Active(u)
              /\ Finished(u)' <=> Finished(u)
              /\ Step(u)' = Step(u)
              /\ EntryOf(u)' = EntryOf(u)
              /\ Ahead(u)' = Ahead(u)
<1>1. \A u \in Threads : Program(u)' = Program(u)
  BY DEF Program, Steady
<1>2. ASSUME NEW u \in Threads \ {t}
      PROVE  /\ Active(u)' <=> Active(u)
             /\ Finished(u)' <=> Finished(u)
             /\ Step(u)' = Step(u)
             /\ Ahead(u)' = Ahead(u)
  BY <1>1 DEF Steady, Active, Finished, Step, Ahead
<1>3. ASSUME NEW u \in Threads \ {t}
      PROVE  EntryOf(u)' = EntryOf(u)
  BY <1>2 DEF Steady, EntryOf
<1> QED BY <1>1, <1>2, <1>3

\* A step of t that does not end its emission keeps what it emits.
LEMMA OwnKeeps ==
  ASSUME NEW t \in Threads, Steady(t), emitted'[t] = emitted[t]
  PROVE  /\ Finished(t)' <=> Finished(t)
         /\ Step(t)' = Step(t)
         /\ number'[t] = number[t] => EntryOf(t)' = EntryOf(t)
<1>1. Program(t)' = Program(t)
  BY SteadyKeeps
<1>2. Step(t)' = Step(t) /\ (Finished(t)' <=> Finished(t))
  BY <1>1 DEF Step, Finished
<1> QED BY <1>2 DEF EntryOf, Steady

\* The steps of the last consumer, as far as the others can tell.
LastConsumer(t) ==
  /\ at[t] \in Describing
  /\ Steady(t)
  /\ UNCHANGED <<sequence, number, slot, trace, positions, published>>
  /\ \/ at'[t] \in Describing /\ emitted'[t] = emitted[t]
     \/ at'[t] = "idle" /\ emitted'[t] = emitted[t] + 1

LEMMA LastConsumerSteps ==
  ASSUME BusTypeOK, NEW t \in Threads,
         Root(t) \/ Swallow(t) \/ Meter(t) \/ Describe(t)
  PROVE  LastConsumer(t)
<1>1. Steady(t)
  BY AdvanceSteady DEF Advance
<1> USE <1>1 DEF BusTypeOK, LastConsumer, Goto, Return, Describing, traceVars
<1>2. CASE Root(t)
  BY <1>2 DEF Root
<1>3. CASE Swallow(t)
  BY <1>3 DEF Swallow
<1>4. CASE Meter(t)
  BY <1>4 DEF Meter
<1>5. CASE Describe(t)
  BY <1>5 DEF Describe
<1> QED BY <1>2, <1>3, <1>4, <1>5

-----------------------------------------------------------------------------
(* Types, and who runs.                                                     *)

LEMMA RunningStep ==
  ASSUME BusTypeOK, Running, NEW t \in Threads, Advance(t)
  PROVE  Running'
<1>1. Steady(t)
  BY AdvanceSteady
<1>2. \/ at'[t] = "idle" /\ emitted'[t] = emitted[t] + 1 /\ Active(t)
      \/ at'[t] # "idle" /\ emitted'[t] = emitted[t] /\ Active(t)
      \/ Number(t) /\ emitted' = emitted
  <2> USE DEF BusTypeOK, Goto, Return, Active
  <2>1. CASE Emit(t)
    BY <2>1 DEF Emit, Number
  <2>2. CASE Guard(t)
    BY <2>2 DEF Guard
  <2>3. CASE Look(t)
    BY <2>3 DEF Look, Store
  <2>4. CASE Append_(t)
    BY <2>4 DEF Append_
  <2>5. CASE Root(t) \/ Swallow(t) \/ Meter(t) \/ Describe(t)
    BY <2>5, LastConsumerSteps DEF LastConsumer, Describing
  <2> QED BY <2>1, <2>2, <2>3, <2>4, <2>5 DEF Advance
<1>3. \A u \in Threads : emitted[u] \in Nat /\ emitted'[u] \in Nat /\ emitted'[u] >= emitted[u]
  BY <1>1, <1>2 DEF Steady, BusTypeOK
<1>4. ASSUME NEW u \in Threads \ {t}
      PROVE  /\ emitted'[u] <= Len(Program(u)')
             /\ Active(u)' => /\ ~ Finished(u)'
                              /\ \A v \in Threads : emitted'[v] >= Step(u)'.waits[v]
  <2>1. Active(u)' => Active(u)
    BY <1>1, SteadyKeeps
  <2>2. Active(u) => \A v \in Threads : Step(u).waits[v] \in Nat
    BY StepFacts DEF StepType, Running
  <2> QED BY <1>1, <1>3, <2>1, <2>2, SteadyKeeps DEF Running, Steady
<1>5. CASE at'[t] = "idle" /\ emitted'[t] = emitted[t] + 1 /\ Active(t)
  <2>1. emitted'[t] <= Len(Program(t)')
    <3>1. Program(t)' = Program(t) /\ Len(Program(t)) \in Nat
      BY <1>1, SteadyKeeps, Programs
    <3> QED BY <1>3, <1>5, <3>1 DEF Running, Finished
  <2>2. ~ Active(t)'
    BY <1>5 DEF Active
  <2> QED BY <1>4, <2>1, <2>2 DEF Running
<1>6. CASE at'[t] # "idle" /\ emitted'[t] = emitted[t] /\ Active(t)
  <2>1. Step(t)' = Step(t) /\ (Finished(t)' <=> Finished(t)) /\ Program(t)' = Program(t)
    BY <1>1, <1>6, OwnKeeps, SteadyKeeps
  <2>2. \A v \in Threads : Step(t).waits[v] \in Nat
    BY <1>6, StepFacts DEF StepType, Running
  <2> QED BY <1>3, <1>4, <1>6, <2>1, <2>2 DEF Running
<1>7. CASE Number(t) /\ emitted' = emitted
  <2>1. Step(t)' = Step(t) /\ (Finished(t)' <=> Finished(t)) /\ Program(t)' = Program(t)
    BY <1>1, <1>7, OwnKeeps, SteadyKeeps
  <2> QED BY <1>4, <1>7, <2>1 DEF Running, Number
<1> QED BY <1>2, <1>5, <1>6, <1>7

LEMMA TypeStep ==
  ASSUME BusTypeOK, Running, NEW t \in Threads, Advance(t)
  PROVE  BusTypeOK'
<1> USE DEF Goto, Return
<1>0. at \in [Threads -> Place] /\ emitted \in [Threads -> Nat]
  BY DEF BusTypeOK
<1>a. telemetry \in [roots : Nat, steps : Nat, spans : Nat, turns : Nat]
  BY DEF BusTypeOK
<1>b. \A place \in Place : Goto(t, place) => at' \in [Threads -> Place]
  BY <1>0
<1>1. CASE Emit(t)
  BY <1>1, <1>b DEF BusTypeOK, Emit, Number, traceVars, otelVars, Place
<1>2. CASE Guard(t)
  <2>1. ~ Finished(t)
    BY <1>2 DEF Guard, Running, Active
  <2>2. EntryOf(t) \in Entry
    BY <2>1, StepFacts
  <2>3. at' \in [Threads -> Place] /\ emitted' \in [Threads -> Nat]
    BY <1>0, <1>2, <1>b DEF Guard, Place
  <2>4. published' \subseteq Entry /\ blocked' \in Nat
    BY <1>2, <2>2 DEF BusTypeOK, Guard
  <2> QED BY <1>2, <2>3, <2>4 DEF BusTypeOK, Guard, traceVars, otelVars
<1>3. CASE Look(t)
  <2>1. ~ Finished(t)
    BY <1>3 DEF Look, Running, Active
  <2>2. EntryOf(t) \in Entry /\ Step(t).key \in Keys
    BY <2>1, StepFacts
  <2>3. CASE positions[Step(t).key] # 0
    <3>1. positions[Step(t).key] \in DOMAIN trace
      BY <2>2, <2>3 DEF BusTypeOK
    <3>2. trace' \in Seq(Entry) /\ Len(trace') = Len(trace)
      <4>1. trace' = [trace EXCEPT ![positions[Step(t).key]] = EntryOf(t)]
        BY <1>3, <2>3 DEF Look, Store
      <4>2. trace \in Seq(Entry)
        BY DEF BusTypeOK
      <4> QED BY <2>2, <3>1, <4>1, <4>2
    <3> QED BY <1>3, <1>b, <2>3, <3>2 DEF Place, BusTypeOK, Look, Store, otelVars
  <2>4. CASE positions[Step(t).key] = 0
    <3>1. slot' \in [Threads -> 0 .. Len(trace')] /\ at' \in [Threads -> Place]
      <4>1. slot \in [Threads -> 0 .. Len(trace)] /\ Len(trace) \in 0 .. Len(trace)
        BY DEF BusTypeOK
      <4> QED BY <1>0, <1>3, <1>b, <2>4, <4>1 DEF Look, Store, Place
    <3> QED BY <1>3, <2>4, <3>1 DEF BusTypeOK, Look, Store, otelVars
  <2> QED BY <2>3, <2>4
<1>4. CASE Append_(t)
  <2>1. ~ Finished(t)
    BY <1>4 DEF Append_, Running, Active
  <2>2. EntryOf(t) \in Entry /\ Step(t).key \in Keys
    BY <2>1, StepFacts
  <2>3. trace' \in Seq(Entry) /\ Len(trace') = Len(trace) + 1
    BY <1>4, <2>2 DEF Append_, BusTypeOK
  <2>4. \A n \in 0 .. Len(trace) : n \in 0 .. Len(trace') /\ n + 1 \in 0 .. Len(trace')
    BY <2>3 DEF BusTypeOK
  <2>5. positions' \in [Keys -> 0 .. Len(trace')]
    BY <1>4, <2>2, <2>4 DEF Append_, BusTypeOK
  <2>6. slot' \in [Threads -> 0 .. Len(trace')]
    BY <1>4, <2>4 DEF Append_, BusTypeOK
  <2> QED BY <1>4, <1>b, <2>3, <2>5, <2>6 DEF Place, BusTypeOK, Append_, otelVars
<1>5. CASE Root(t)
  <2>1. telemetry' \in [roots : Nat, steps : Nat, spans : Nat, turns : Nat]
    BY <1>a, <1>5 DEF Root, RootOnce
  <2>2. at' \in [Threads -> Place] /\ emitted' \in [Threads -> Nat]
    BY <1>0, <1>b, <1>5 DEF Root, Place
  <2> QED BY <1>5, <2>1, <2>2 DEF BusTypeOK, Root, RootOnce, traceVars
<1>6. CASE Swallow(t)
  BY <1>6, <1>b DEF BusTypeOK, Swallow, traceVars, otelVars, Place
<1>7. CASE Meter(t)
  <2>1. telemetry' \in [roots : Nat, steps : Nat, spans : Nat, turns : Nat]
    BY <1>a, <1>7 DEF Meter
  <2>2. at' \in [Threads -> Place] /\ emitted' \in [Threads -> Nat]
    BY <1>0, <1>b, <1>7 DEF Meter, Place
  <2> QED BY <1>7, <2>1, <2>2 DEF BusTypeOK, Meter, traceVars
<1>8. CASE Describe(t)
  <2>1. telemetry' \in [roots : Nat, steps : Nat, spans : Nat, turns : Nat]
    BY <1>a, <1>8 DEF Describe
  <2>2. at' \in [Threads -> Place] /\ emitted' \in [Threads -> Nat]
    BY <1>0, <1>b, <1>8 DEF Describe, Place
  <2> QED BY <1>8, <2>1, <2>2 DEF BusTypeOK, Describe, traceVars
<1> QED BY <1>1, <1>2, <1>3, <1>4, <1>5, <1>6, <1>7, <1>8 DEF Advance

-----------------------------------------------------------------------------
(* Numbers.                                                                 *)

\* The conjuncts of Numbered that speak of the threads.
NumberedThread(t) ==
  /\ at[t] = "numbered" =>
       \A e \in published : ~ (e.emitter = emitter /\ e.number = number[t])
  /\ at[t] \in Tracing \cup Describing => EntryOf(t) \in published
  /\ Active(t) =>
       \A e \in published :
         e.emitter = emitter /\ e.key = Step(t).key => e.number <= number[t]

\* A step of t that publishes nothing keeps what holds of the others.
LEMMA OthersNumbered ==
  ASSUME Numbered, NEW t \in Threads, Steady(t), published' = published,
         NEW u \in Threads \ {t}
  PROVE  NumberedThread(u)'
<1>1. NumberedThread(u)
  BY DEF Numbered, NumberedThread
<1>2. /\ Active(u)' <=> Active(u)
      /\ Step(u)' = Step(u)
      /\ EntryOf(u)' = EntryOf(u)
      /\ at'[u] = at[u] /\ number'[u] = number[u] /\ emitter' = emitter
  BY SteadyKeeps DEF Steady
<1> QED BY <1>1, <1>2 DEF NumberedThread

LEMMA NumberedStep ==
  ASSUME BusTypeOK, Running, Numbered, NEW t \in Threads, Advance(t)
  PROVE  Numbered'
<1>1. Steady(t)
  BY AdvanceSteady
<1>2. \A e \in published : e.number \in Nat /\ e.emitter \in Nat
  <2>1. ASSUME NEW e \in published PROVE e.number \in Nat /\ e.emitter \in {1, 2}
    <3>1. e \in Entry
      BY DEF BusTypeOK
    <3> QED BY <3>1 DEF Entry
  <2> QED BY <2>1
<1>3. \A u \in Threads : number[u] \in Nat /\ number[u] <= sequence
  BY DEF BusTypeOK
<1>4. sequence \in Nat /\ emitter \in Nat
  BY DEF BusTypeOK
<1>5. CASE Emit(t)
  <2>1. /\ sequence' = sequence + 1 /\ number'[t] = sequence + 1
        /\ published' = published /\ at'[t] = "numbered" /\ emitted'[t] = emitted[t]
    BY <1>5 DEF Emit, Number, Goto, BusTypeOK
  <2>2. \A e \in published :
          e.emitter < emitter \/ (e.emitter = emitter /\ e.number <= sequence)
    BY DEF Numbered
  <2>3. IsFiniteSet(published)'
    BY <2>1 DEF Numbered
  <2>4. \A e \in published' :
          e.emitter < emitter' \/ (e.emitter = emitter' /\ e.number <= sequence')
    BY <1>1, <1>2, <1>4, <2>1, <2>2 DEF Steady
  <2>5. NumbersAreUnique'
    <3>1. \A e, f \in published :
            e.emitter = f.emitter /\ e.number = f.number => e = f
      BY DEF Numbered, NumbersAreUnique
    <3>2. ASSUME NEW u \in Threads, NEW v \in Threads, u # v,
                 at'[u] # "idle", at'[v] # "idle", number'[u] = number'[v]
          PROVE  FALSE
      <4>1. CASE u # t /\ v # t
        BY <1>1, <3>2, <4>1 DEF Numbered, NumbersAreUnique, Steady
      <4>2. CASE u = t
        BY <1>1, <1>3, <1>4, <2>1, <3>2, <4>2 DEF Steady
      <4>3. CASE v = t
        BY <1>1, <1>3, <1>4, <2>1, <3>2, <4>3 DEF Steady
      <4> QED BY <4>1, <4>2, <4>3
    <3> QED BY <2>1, <3>1, <3>2 DEF NumbersAreUnique
  <2>6. NumberedThread(t)'
    <3>1. \A e \in published : e.emitter = emitter => e.number <= sequence
      BY <1>2, <1>4, <2>2
    <3>2. \A e \in published' : e.emitter = emitter' => e.number < number'[t]
      BY <1>1, <1>2, <1>4, <2>1, <3>1 DEF Steady
    <3> QED BY <1>1, <1>2, <1>4, <2>1, <3>2 DEF NumberedThread, Tracing, Describing
  <2>7. \A u \in Threads : NumberedThread(u)'
    BY <1>1, <2>1, <2>6, OthersNumbered
  <2> QED BY <2>3, <2>4, <2>5, <2>7 DEF Numbered, NumberedThread
<1>6. CASE Guard(t) /\ ~ Step(t).secret
  <2> DEFINE e0 == EntryOf(t)
  <2>0. at[t] = "numbered" /\ ~ Finished(t) /\ Active(t)
    BY <1>6 DEF Guard, Running, Active
  <2>1. /\ sequence' = sequence /\ number' = number /\ emitted' = emitted
        /\ published' = published \cup {e0} /\ at'[t] = "placing"
    BY <1>6 DEF Guard, Goto, BusTypeOK
  <2>2. e0.emitter = emitter /\ e0.number = number[t] /\ e0.key = Step(t).key
    BY DEF EntryOf
  <2>3. IsFiniteSet(published)'
    BY <2>1, FS_AddElement DEF Numbered
  <2>4. \A e \in published' :
          e.emitter < emitter' \/ (e.emitter = emitter' /\ e.number <= sequence')
    BY <1>1, <1>3, <2>1, <2>2 DEF Steady, Numbered
  <2>5. NumbersAreUnique'
    <3>1. \A e \in published : ~ (e.emitter = emitter /\ e.number = number[t])
      BY <2>0 DEF Numbered
    <3>2. \A e, f \in published' :
            e.emitter = f.emitter /\ e.number = f.number => e = f
      BY <2>1, <2>2, <3>1 DEF Numbered, NumbersAreUnique
    <3>3. \A u, v \in Threads :
            at'[u] # "idle" /\ at'[v] # "idle" /\ number'[u] = number'[v] => u = v
      BY <1>1, <2>0, <2>1 DEF Numbered, NumbersAreUnique, Steady
    <3> QED BY <3>2, <3>3 DEF NumbersAreUnique
  <2>6. Step(t)' = Step(t) /\ EntryOf(t)' = e0
    BY <1>1, <2>1, OwnKeeps
  <2>7. NumberedThread(t)'
    <3>1. \A e \in published' : e.emitter = emitter' /\ e.key = Step(t)'.key => e.number <= number'[t]
      BY <1>1, <1>3, <2>0, <2>1, <2>2, <2>6 DEF Numbered, Steady
    <3> QED BY <2>1, <2>6, <3>1 DEF NumberedThread
  <2>8. ASSUME NEW u \in Threads \ {t} PROVE NumberedThread(u)'
    <3>1. NumberedThread(u)
      BY DEF Numbered, NumberedThread
    <3>2. /\ Active(u)' <=> Active(u)
          /\ Step(u)' = Step(u)
          /\ EntryOf(u)' = EntryOf(u)
          /\ at'[u] = at[u] /\ number'[u] = number[u] /\ emitter' = emitter
      BY <1>1, SteadyKeeps DEF Steady
    <3>3. Active(u) => e0.number # number[u]
      BY <2>0, <2>2 DEF Numbered, NumbersAreUnique, Active
    <3>4. Active(u) => e0.key # Step(u).key
      BY <2>0, <2>2, ActiveApart DEF Running
    <3> QED BY <2>1, <3>1, <3>2, <3>3, <3>4 DEF NumberedThread, Active
  <2>9. \A u \in Threads : NumberedThread(u)'
    BY <2>7, <2>8
  <2> QED BY <2>3, <2>4, <2>5, <2>9 DEF Numbered, NumberedThread
<1>7. ASSUME /\ sequence' = sequence /\ number' = number
             /\ published' = published /\ Active(t)
             /\ \/ at'[t] = "idle"
                \/ /\ at[t] \in Tracing \cup Describing
                   /\ at'[t] \in Tracing \cup Describing
                   /\ emitted'[t] = emitted[t]
      PROVE  Numbered'
  <2>1. IsFiniteSet(published)'
    BY <1>7 DEF Numbered
  <2>2. \A e \in published' :
          e.emitter < emitter' \/ (e.emitter = emitter' /\ e.number <= sequence')
    BY <1>1, <1>7 DEF Steady, Numbered
  <2>3. NumbersAreUnique'
    <3>1. \A e, f \in published' :
            e.emitter = f.emitter /\ e.number = f.number => e = f
      BY <1>7 DEF Numbered, NumbersAreUnique
    <3>2. \A u, v \in Threads :
            at'[u] # "idle" /\ at'[v] # "idle" /\ number'[u] = number'[v] => u = v
      BY <1>1, <1>7 DEF Numbered, NumbersAreUnique, Steady, Active
    <3> QED BY <3>1, <3>2 DEF NumbersAreUnique
  <2>4. NumberedThread(t)'
    <3>1. CASE at'[t] = "idle"
      BY <3>1 DEF NumberedThread, Active, Tracing, Describing
    <3>2. CASE /\ at[t] \in Tracing \cup Describing
               /\ at'[t] \in Tracing \cup Describing
               /\ emitted'[t] = emitted[t]
      <4>1. Step(t)' = Step(t) /\ EntryOf(t)' = EntryOf(t)
        BY <1>1, <1>7, <3>2, OwnKeeps
      <4> QED BY <1>1, <1>7, <3>2, <4>1
              DEF Numbered, NumberedThread, Steady, Active, Tracing, Describing
    <3> QED BY <1>7, <3>1, <3>2
  <2>5. \A u \in Threads : NumberedThread(u)'
    BY <1>1, <1>7, <2>4, OthersNumbered
  <2> QED BY <2>1, <2>2, <2>3, <2>5 DEF Numbered, NumberedThread
<1>8. CASE Guard(t) /\ Step(t).secret
  BY <1>7, <1>8 DEF Guard, Goto, Return, BusTypeOK, Active
<1>9. CASE Look(t)
  BY <1>7, <1>9 DEF Look, Store, Goto, BusTypeOK, Active, Tracing, Describing
<1>10. CASE Append_(t)
  BY <1>7, <1>10 DEF Append_, Goto, BusTypeOK, Active, Tracing, Describing
<1>11. CASE Root(t) \/ Swallow(t) \/ Meter(t) \/ Describe(t)
  BY <1>7, <1>11, LastConsumerSteps DEF LastConsumer, Active, Describing
<1> QED BY <1>5, <1>6, <1>8, <1>9, <1>10, <1>11 DEF Advance

-----------------------------------------------------------------------------
(* The trace.                                                               *)

LEMMA AheadShrinks ==
  ASSUME BusTypeOK, NEW t \in Threads, Steady(t),
         \/ emitted'[t] = emitted[t] + 1
         \/ emitted'[t] = emitted[t] /\ (at[t] \in Describing => at'[t] \in Describing)
  PROVE  Ahead(t)' \subseteq Ahead(t)
<1>1. Program(t)' = Program(t) /\ DOMAIN Program(t) \subseteq Nat
  BY SteadyKeeps, Programs
<1>2. emitted[t] \in Nat
  BY DEF BusTypeOK
<1> QED BY <1>1, <1>2 DEF Ahead

\* A step that leaves the trace alone.
LEMMA QuietPlaced ==
  ASSUME BusTypeOK, Placed, NEW t \in Threads, Steady(t),
         UNCHANGED <<trace, positions>>, slot' = slot,
         at[t] \notin Tracing, at'[t] # "appending",
         Ahead(t)' \subseteq Ahead(t),
         \A e \in published' : e \in published \/ (at'[t] \in Tracing /\ EntryOf(t)' = e)
  PROVE  Placed'
<1>1. KeysOnce' /\ KeysPlaced'
  BY DEF Placed, KeysOnce, KeysPlaced
<1>2. ASSUME NEW u \in Threads \ {t} PROVE Fresh(u)' /\ Aimed(u)'
  <2>1. Step(u)' = Step(u) /\ Ahead(u)' = Ahead(u) /\ Program(u)' = Program(u) /\ at'[u] = at[u]
    BY SteadyKeeps DEF Steady
  <2> QED BY <2>1 DEF Placed, Fresh, Aimed
<1>3. Fresh(t)' /\ Aimed(t)'
  <2>1. Program(t)' = Program(t)
    BY SteadyKeeps
  <2> QED BY <2>1 DEF Placed, Fresh, Aimed
<1>4. Alone'
  <2>1. CASE t = "main"
    BY <2>1 DEF Alone
  <2>2. CASE t # "main"
    <3>1. "main" \in Threads \ {t}
      BY <2>2, ScriptsAssumption
    <3>2. /\ Step("main")' = Step("main") /\ Ahead("main")' = Ahead("main")
          /\ Program("main")' = Program("main")
          /\ at'["main"] = at["main"] /\ emitted'["main"] = emitted["main"]
      BY <3>1, SteadyKeeps DEF Steady
    <3> QED BY <3>2 DEF Placed, Alone
  <2> QED BY <2>1, <2>2
<1>5. ASSUME NEW e \in published' PROVE Tracked(e)'
  <2>1. CASE at'[t] \in Tracing /\ EntryOf(t)' = e
    BY <2>1 DEF Tracked
  <2>2. CASE e \in published
    <3>1. CASE Entered(e)
      BY <3>1 DEF Tracked, Entered
    <3>2. ASSUME NEW u \in Threads, at[u] \in Tracing, EntryOf(u) = e
          PROVE  Tracked(e)'
      <4>1. EntryOf(u)' = EntryOf(u) /\ at'[u] = at[u]
        BY <3>2, SteadyKeeps DEF Steady
      <4> QED BY <3>2, <4>1 DEF Tracked
    <3> QED BY <2>2, <3>1, <3>2 DEF Placed, Tracked
  <2> QED BY <2>1, <2>2
<1> QED BY <1>1, <1>2, <1>3, <1>4, <1>5 DEF Placed

\* What the trace says of an entry whose thread has just placed it.
LEMMA OthersTracked ==
  ASSUME Placed, NEW t \in Threads, Steady(t), NEW e \in published, ~ Entered(e),
         e # EntryOf(t)
  PROVE  Tracked(e)'
<1>1. PICK u \in Threads : at[u] \in Tracing /\ EntryOf(u) = e
  BY DEF Placed, Tracked
<1>2. u \in Threads \ {t}
  BY <1>1
<1>3. EntryOf(u)' = EntryOf(u) /\ at'[u] = at[u]
  BY <1>2, SteadyKeeps DEF Steady
<1> QED BY <1>1, <1>3 DEF Tracked

LEMMA ReplacePlaced ==
  ASSUME BusTypeOK, Running, Numbered, Placed, NEW t \in Threads, Look(t),
         positions[Step(t).key] # 0
  PROVE  Placed'
<1> DEFINE k == Step(t).key
           p == positions[k]
           e0 == EntryOf(t)
<1>1. Steady(t)
  BY AdvanceSteady DEF Advance
<1>2. /\ at[t] = "placing" /\ at'[t] = "root" /\ emitted' = emitted /\ number' = number
      /\ trace' = [trace EXCEPT ![p] = e0] /\ positions' = positions /\ slot' = slot
      /\ published' = published
  BY DEF Look, Store, Goto, BusTypeOK
<1>3. /\ ~ Finished(t) /\ k \in Keys /\ e0.key = k /\ e0.number = number[t]
      /\ e0.emitter = emitter /\ emitted[t] + 1 \in DOMAIN Program(t)
      /\ Program(t)[emitted[t] + 1] = Step(t)
  BY <1>2, StepFacts DEF Running, Active
<1>4. p \in DOMAIN trace
  BY <1>3 DEF BusTypeOK
<1>5. trace[p].key = k
  <2>1. emitted[t] + 1 \in Ahead(t)
    BY <1>2, <1>3 DEF Ahead, Describing
  <2> QED BY <1>3, <2>1 DEF Placed, Aimed
<1> HIDE DEF p, k, e0
<1>6. /\ DOMAIN trace' = DOMAIN trace /\ Len(trace') = Len(trace)
      /\ trace'[p] = e0
      /\ \A i \in DOMAIN trace : i # p => trace'[i] = trace[i]
      /\ \A i \in DOMAIN trace : trace'[i].key = trace[i].key
  <2>1. trace \in Seq(Entry)
    BY DEF BusTypeOK
  <2> QED BY <1>2, <1>3, <1>4, <1>5, <2>1
<1>7. KeysOnce' /\ KeysPlaced'
  BY <1>2, <1>6 DEF Placed, KeysOnce, KeysPlaced
<1>8. ASSUME NEW u \in Threads PROVE Fresh(u)' /\ Aimed(u)'
  <2>1. Program(u)' = Program(u) /\ Ahead(u)' \subseteq Ahead(u)
    BY <1>1, <1>2, AheadShrinks, SteadyKeeps DEF Describing
  <2>2. Fresh(u)'
    BY <1>1, <1>2, SteadyKeeps DEF Placed, Fresh, Steady
  <2>3. ASSUME NEW i \in Ahead(u)', positions[Program(u)[i].key] # 0
        PROVE  trace'[positions[Program(u)[i].key]].key = Program(u)[i].key
    <3>1. i \in Ahead(u) /\ i \in DOMAIN Program(u)
      BY <2>1, <2>3 DEF Ahead
    <3>2. Program(u)[i].key \in Keys
      <4>1. Program(u) \in Seq(StepType)
        BY Programs
      <4>2. Program(u)[i] \in StepType
        BY <3>1, <4>1
      <4> QED BY <4>2 DEF StepType
    <3>3. positions[Program(u)[i].key] \in DOMAIN trace
      BY <2>3, <3>2 DEF BusTypeOK
    <3> QED BY <1>6, <2>3, <3>1, <3>3 DEF Placed, Aimed
  <2> QED BY <1>2, <2>1, <2>2, <2>3 DEF Aimed
<1>9. Alone'
  <2>1. CASE t = "main"
    BY <1>2, <2>1 DEF Alone
  <2>2. CASE t # "main"
    <3>1. "main" \in Threads \ {t}
      BY <2>2, ScriptsAssumption
    <3>2. /\ Step("main")' = Step("main") /\ Ahead("main")' = Ahead("main")
          /\ Program("main")' = Program("main")
          /\ at'["main"] = at["main"] /\ emitted'["main"] = emitted["main"]
      BY <1>1, <3>1, SteadyKeeps DEF Steady
    <3> QED BY <1>2, <1>6, <3>2 DEF Placed, Alone
  <2> QED BY <2>1, <2>2
<1>10. ASSUME NEW e \in published PROVE Tracked(e)'
  <2>1. e.number \in Nat /\ e.emitter \in {1, 2} /\ number[t] \in Nat /\ emitter \in {1, 2}
    <3>1. e \in Entry
      BY DEF BusTypeOK
    <3> QED BY <3>1 DEF Entry, BusTypeOK
  <2>2. e.key = k => Later(e0, e)
    BY <1>2, <1>3, <2>1 DEF Numbered, Later, Active, k
  <2>3. CASE e = e0
    BY <1>4, <1>6, <2>1, <2>2, <2>3, <1>3 DEF Tracked, Entered
  <2>4. CASE Entered(e)
    <3>1. PICK i \in DOMAIN trace : trace[i].key = e.key /\ Later(trace[i], e)
      BY <2>4 DEF Entered
    <3>2. trace'[i].key = e.key /\ Later(trace'[i], e)
      BY <1>5, <1>6, <2>2, <3>1
    <3> QED BY <1>6, <3>1, <3>2 DEF Tracked, Entered, Later
  <2>5. CASE ~ Entered(e) /\ e # e0
    BY <1>1, <2>5, OthersTracked DEF e0
  <2> QED BY <2>3, <2>4, <2>5
<1> QED BY <1>2, <1>7, <1>8, <1>9, <1>10 DEF Placed

LEMMA LookPlaced ==
  ASSUME BusTypeOK, Running, Placed, NEW t \in Threads, Look(t),
         positions[Step(t).key] = 0
  PROVE  Placed'
<1>1. Steady(t)
  BY AdvanceSteady DEF Advance
<1>2. /\ at[t] = "placing" /\ at'[t] = "appending" /\ emitted' = emitted /\ number' = number
      /\ trace' = trace /\ positions' = positions /\ slot'[t] = Len(trace)
      /\ published' = published
  BY DEF Look, Store, Goto, BusTypeOK
<1>3. Step(t)' = Step(t) /\ EntryOf(t)' = EntryOf(t)
  BY <1>1, <1>2, OwnKeeps
<1>4. KeysOnce' /\ KeysPlaced'
  BY <1>2 DEF Placed, KeysOnce, KeysPlaced
<1>5. ASSUME NEW u \in Threads PROVE Fresh(u)' /\ Aimed(u)'
  <2>1. Program(u)' = Program(u) /\ Ahead(u)' \subseteq Ahead(u)
    BY <1>1, <1>2, AheadShrinks, SteadyKeeps DEF Describing
  <2>2. Fresh(u)'
    <3>1. CASE u = t
      BY <1>2, <1>3, <3>1 DEF Fresh
    <3>2. CASE u # t
      BY <1>1, <1>2, <3>2, SteadyKeeps DEF Placed, Fresh, Steady
    <3> QED BY <3>1, <3>2
  <2> QED BY <1>2, <2>1, <2>2 DEF Placed, Aimed
<1>6. Alone'
  <2>1. CASE t = "main"
    BY <1>2, <2>1 DEF Alone
  <2>2. CASE t # "main"
    <3>1. "main" \in Threads \ {t}
      BY <2>2, ScriptsAssumption
    <3>2. /\ Step("main")' = Step("main") /\ Ahead("main")' = Ahead("main")
          /\ Program("main")' = Program("main") /\ slot'["main"] = slot["main"]
          /\ at'["main"] = at["main"] /\ emitted'["main"] = emitted["main"]
      BY <1>1, <3>1, SteadyKeeps DEF Steady
    <3> QED BY <1>2, <3>2 DEF Placed, Alone
  <2> QED BY <2>1, <2>2
<1>7. ASSUME NEW e \in published PROVE Tracked(e)'
  <2>1. CASE Entered(e)
    BY <1>2, <2>1 DEF Tracked, Entered
  <2>2. CASE e = EntryOf(t)
    BY <1>2, <1>3, <2>2 DEF Tracked, Tracing
  <2>3. CASE ~ Entered(e) /\ e # EntryOf(t)
    BY <1>1, <2>3, OthersTracked
  <2> QED BY <2>1, <2>2, <2>3
<1> QED BY <1>2, <1>4, <1>5, <1>6, <1>7 DEF Placed

\* Nobody else emits between two steps of one thread with the same key.
LEMMA NobodyBetween ==
  ASSUME BusTypeOK, Running, NEW t \in Threads, Active(t),
         NEW i \in DOMAIN Program("main"), i > emitted["main"] + 1, Active("main"),
         Program("main")[i].key = Step("main").key
  PROVE  t = "main"
<1> SUFFICES ASSUME t # "main" PROVE FALSE
  OBVIOUS
<1> DEFINE j == emitted["main"] + 1
<1>1. "main" \in Threads
  BY ScriptsAssumption
<1>2. /\ ~ Finished("main") /\ j \in DOMAIN Program("main")
      /\ Step("main") = Program("main")[j] /\ Step("main") \in StepType
      /\ emitted["main"] \in Nat /\ i > j
  BY <1>1, StepFacts DEF Running, BusTypeOK
<1>3. /\ ~ Finished(t) /\ emitted[t] + 1 \in DOMAIN Program(t) /\ emitted[t] \in Nat
      /\ Step(t) = Program(t)[emitted[t] + 1] /\ Step(t) \in StepType
  BY StepFacts DEF Running, BusTypeOK
<1>4. emitter = 1
  BY <1>3 DEF BusTypeOK, Program
<1>5. Program("main") = Script["main"] /\ Program(t) = Script[t]
  BY <1>4 DEF Program
<1>6. i \in DOMAIN Script["main"] /\ j \in DOMAIN Script["main"] /\ t \in Threads \ {"main"}
  BY <1>2, <1>5
<1>7. \/ Script["main"][j].waits[t] >= Len(Script[t])
      \/ \A k \in DOMAIN Script[t] : Script[t][k].waits["main"] >= j
  BY <1>2, <1>5, <1>6, RepetitionAssumption
<1>8. CASE Script["main"][j].waits[t] >= Len(Script[t])
  <2>1. emitted[t] >= Step("main").waits[t] /\ Step("main").waits[t] \in Nat
    BY <1>1, <1>2 DEF Running, StepType
  <2>2. emitted[t] < Len(Script[t]) /\ Len(Script[t]) \in Nat
    BY <1>3, <1>5, ScriptsAssumption DEF Running, Finished
  <2> QED BY <1>2, <1>3, <1>5, <1>8, <2>1, <2>2
<1>9. CASE \A k \in DOMAIN Script[t] : Script[t][k].waits["main"] >= j
  <2>1. emitted["main"] >= Step(t).waits["main"] /\ Step(t).waits["main"] \in Nat
    BY <1>1, <1>3 DEF Running, StepType
  <2>2. Step(t).waits["main"] >= j
    BY <1>3, <1>5, <1>9
  <2> QED BY <1>2, <2>1, <2>2
<1> QED BY <1>7, <1>8, <1>9

\* Only the main thread has a key twice.
LEMMA OnlyMainRepeats ==
  ASSUME BusTypeOK, NEW t \in Threads, NEW i \in DOMAIN Program(t),
         NEW j \in DOMAIN Program(t), i # j, Program(t)[i].key = Program(t)[j].key
  PROVE  t = "main"
<1> SUFFICES ASSUME t # "main" PROVE FALSE
  OBVIOUS
<1>1. emitter = 1
  BY DEF BusTypeOK, Program
<1> QED BY <1>1, DisciplineAssumption DEF Program

LEMMA AppendPlaced ==
  ASSUME BusTypeOK, Running, Numbered, Placed, NEW t \in Threads, Append_(t)
  PROVE  Placed'
<1> DEFINE k == Step(t).key
           e0 == EntryOf(t)
           n == Len(trace) + 1
<1>1. Steady(t)
  BY AdvanceSteady DEF Advance
<1>2. /\ at[t] = "appending" /\ at'[t] = "root" /\ emitted' = emitted /\ number' = number
      /\ trace' = Append(trace, e0) /\ positions' = [positions EXCEPT ![k] = slot[t] + 1]
      /\ slot' = slot /\ published' = published
  BY DEF Append_, Goto, BusTypeOK
<1>3. /\ ~ Finished(t) /\ k \in Keys /\ e0.key = k /\ e0.number = number[t]
      /\ e0.emitter = emitter /\ emitted[t] + 1 \in DOMAIN Program(t)
      /\ Program(t)[emitted[t] + 1] = Step(t) /\ e0 \in Entry
  BY <1>2, StepFacts DEF Running, Active
<1>4. positions[k] = 0 /\ \A i \in DOMAIN trace : trace[i].key # k
  BY <1>2 DEF Placed, Fresh, KeysPlaced
<1> HIDE DEF k, e0
<1>5. /\ DOMAIN trace' = DOMAIN trace \cup {n} /\ n \notin DOMAIN trace /\ n \in Nat
      /\ trace'[n] = e0
      /\ \A i \in DOMAIN trace : trace'[i] = trace[i]
  <2>1. trace \in Seq(Entry)
    BY DEF BusTypeOK
  <2> QED BY <1>2, <1>3, <2>1
<1>6. /\ positions'[k] = slot[t] + 1 /\ slot[t] \in Nat
      /\ \A x \in Keys \ {k} : positions'[x] = positions[x]
      /\ \A x \in Keys : positions[x] # 0 => positions[x] \in DOMAIN trace
  BY <1>2, <1>3 DEF BusTypeOK
<1> HIDE DEF n
<1>7. \A i \in DOMAIN trace : trace[i].key \in Keys
  <2>1. \A i \in DOMAIN trace : trace[i] \in Entry
    BY DEF BusTypeOK
  <2> QED BY <2>1 DEF Entry
<1>8. KeysOnce'
  BY <1>3, <1>4, <1>5 DEF Placed, KeysOnce
<1>9. KeysPlaced'
  <2>1. ASSUME NEW i \in DOMAIN trace PROVE positions'[trace'[i].key] # 0
    BY <1>4, <1>5, <1>6, <1>7 DEF Placed, KeysPlaced
  <2>2. positions'[trace'[n].key] # 0
    BY <1>3, <1>5, <1>6
  <2> QED BY <1>5, <2>1, <2>2 DEF KeysPlaced
<1>10. ASSUME NEW u \in Threads PROVE Fresh(u)'
  <2>1. CASE u = t
    BY <1>2, <2>1 DEF Fresh
  <2>2. CASE u # t /\ at'[u] = "appending"
    <3>1. at[u] = "appending" /\ Step(u)' = Step(u)
      BY <1>1, <2>2, SteadyKeeps DEF Steady
    <3>2. Step(u).key # k /\ Step(u).key \in Keys
      BY <1>3, <2>2, <3>1, ActiveApart, StepFacts DEF Running, Active, k
    <3> QED BY <1>6, <3>1, <3>2 DEF Placed, Fresh
  <2> QED BY <2>1, <2>2 DEF Fresh
<1>11. ASSUME NEW u \in Threads PROVE Aimed(u)'
  <2>1. Program(u)' = Program(u) /\ Ahead(u)' \subseteq Ahead(u)
    BY <1>1, <1>2, AheadShrinks, SteadyKeeps DEF Describing
  <2> SUFFICES ASSUME NEW i \in Ahead(u)', positions'[Program(u)[i].key] # 0
               PROVE  trace'[positions'[Program(u)[i].key]].key = Program(u)[i].key
    BY <2>1 DEF Aimed
  <2>2. i \in Ahead(u) /\ i \in DOMAIN Program(u)
    BY <2>1 DEF Ahead
  <2>3. Program(u)[i].key \in Keys
    <3>1. Program(u) \in Seq(StepType)
      BY Programs
    <3>2. Program(u)[i] \in StepType
      BY <2>2, <3>1
    <3> QED BY <3>2 DEF StepType
  <2>4. CASE Program(u)[i].key # k
    BY <1>5, <1>6, <2>2, <2>3, <2>4 DEF Placed, Aimed
  <2>5. CASE Program(u)[i].key = k
    <3>1. u = t
      BY <1>3, <2>2, <2>5, KeysApart DEF k
    <3>2. i # emitted[t] + 1
      BY <1>2, <2>1, <3>1 DEF Ahead, Describing, Steady
    <3>3. t = "main"
      BY <1>3, <2>2, <2>5, <3>1, <3>2, OnlyMainRepeats DEF k
    <3>4. slot["main"] = Len(trace)
      BY <1>2, <2>2, <2>5, <3>1, <3>2, <3>3 DEF Placed, Alone, k
    <3>5. positions'[k] = n
      BY <1>6, <3>3, <3>4 DEF n
    <3> QED BY <1>3, <1>5, <2>5, <3>5
  <2> QED BY <2>4, <2>5
<1>12. Alone'
  <2>1. CASE t = "main"
    BY <1>2, <2>1 DEF Alone
  <2>2. CASE t # "main"
    <3>1. "main" \in Threads \ {t}
      BY <2>2, ScriptsAssumption
    <3>2. /\ Step("main")' = Step("main") /\ Ahead("main")' = Ahead("main")
          /\ Program("main")' = Program("main")
          /\ at'["main"] = at["main"] /\ emitted'["main"] = emitted["main"]
      BY <1>1, <3>1, SteadyKeeps DEF Steady
    <3>3. ASSUME at["main"] = "appending", NEW i \in Ahead("main"),
                 i # emitted["main"] + 1, Program("main")[i].key = Step("main").key
          PROVE  FALSE
      <4>1. i \in DOMAIN Program("main") /\ i > emitted["main"] + 1
        BY <3>3 DEF Ahead
      <4> QED BY <1>2, <2>2, <3>3, <4>1, NobodyBetween DEF Active
    <3> QED BY <3>2, <3>3 DEF Alone
  <2> QED BY <2>1, <2>2
<1>13. ASSUME NEW e \in published PROVE Tracked(e)'
  <2>1. CASE Entered(e)
    <3>1. PICK i \in DOMAIN trace : trace[i].key = e.key /\ Later(trace[i], e)
      BY <2>1 DEF Entered
    <3>2. i \in DOMAIN trace' /\ trace'[i] = trace[i]
      BY <1>5, <3>1
    <3> QED BY <3>1, <3>2 DEF Tracked, Entered, Later
  <2>2. CASE e = e0
    <3>1. number[t] >= number[t]
      BY DEF BusTypeOK
    <3> QED BY <1>3, <1>5, <2>2, <3>1 DEF Tracked, Entered, Later
  <2>3. CASE ~ Entered(e) /\ e # e0
    BY <1>1, <2>3, OthersTracked DEF e0
  <2> QED BY <2>1, <2>2, <2>3
<1> QED BY <1>2, <1>8, <1>9, <1>10, <1>11, <1>12, <1>13 DEF Placed

LEMMA PlacedStep ==
  ASSUME BusTypeOK, Running, Numbered, Placed, NEW t \in Threads, Advance(t)
  PROVE  Placed'
<1>1. Steady(t)
  BY AdvanceSteady
<1>2. CASE Emit(t)
  <2>1. /\ at[t] = "idle" /\ at'[t] = "numbered" /\ emitted' = emitted /\ slot' = slot
        /\ published' = published /\ UNCHANGED <<trace, positions>>
    BY <1>2 DEF Emit, Number, Goto, BusTypeOK, traceVars
  <2> QED BY <1>1, <2>1, AheadShrinks, QuietPlaced DEF Tracing, Describing
<1>3. CASE Guard(t)
  <2>1. /\ at[t] = "numbered" /\ slot' = slot /\ number' = number
        /\ UNCHANGED <<trace, positions>>
        /\ \/ at'[t] = "idle" /\ emitted'[t] = emitted[t] + 1 /\ published' = published
           \/ /\ at'[t] = "placing" /\ emitted' = emitted
              /\ published' = published \cup {EntryOf(t)}
    BY <1>3 DEF Guard, Goto, Return, BusTypeOK, traceVars
  <2>2. emitted' = emitted => EntryOf(t)' = EntryOf(t)
    BY <1>1, <2>1, OwnKeeps
  <2>3. Ahead(t)' \subseteq Ahead(t)
    BY <1>1, <2>1, AheadShrinks DEF Describing
  <2> QED BY <1>1, <2>1, <2>2, <2>3, QuietPlaced DEF Tracing
<1>4. CASE Look(t)
  BY <1>4, LookPlaced, ReplacePlaced
<1>5. CASE Append_(t)
  BY <1>5, AppendPlaced
<1>6. CASE Root(t) \/ Swallow(t) \/ Meter(t) \/ Describe(t)
  <2>1. LastConsumer(t)
    BY <1>6, LastConsumerSteps
  <2>2. Ahead(t)' \subseteq Ahead(t)
    BY <1>1, <2>1, AheadShrinks DEF LastConsumer
  <2> QED BY <1>1, <2>1, <2>2, QuietPlaced DEF LastConsumer, Tracing, Describing
<1> QED BY <1>2, <1>3, <1>4, <1>5, <1>6 DEF Advance

-----------------------------------------------------------------------------
(* The telemetry.                                                           *)

LEMMA CountMoves ==
  ASSUME NEW t \in Threads, Steady(t), NEW places
  PROVE  /\ Count(places) \in Nat /\ Count(places)' \in Nat
         /\ (at[t] \in places <=> at'[t] \in places) => Count(places)' = Count(places)
         /\ at[t] \notin places /\ at'[t] \in places => Count(places)' = Count(places) + 1
         /\ at[t] \in places /\ at'[t] \notin places => Count(places)' = Count(places) - 1
<1> DEFINE S == {u \in Threads : at[u] \in places}
           T == {u \in Threads : at'[u] \in places}
<1>1. IsFiniteSet(S) /\ IsFiniteSet(T) /\ Cardinality(S) \in Nat /\ Cardinality(T) \in Nat
  BY ScriptsAssumption, FS_Subset, FS_CardinalityType
<1>2. CASE at[t] \in places <=> at'[t] \in places
  <2>1. S = T
    BY <1>2 DEF Steady
  <2> QED BY <1>1, <1>2, <2>1 DEF Count
<1>3. CASE at[t] \notin places /\ at'[t] \in places
  <2>1. T = S \cup {t} /\ t \notin S
    BY <1>3 DEF Steady
  <2> HIDE DEF S, T
  <2>2. Cardinality(T) = Cardinality(S) + 1
    BY <1>1, <2>1, FS_AddElement
  <2> QED BY <1>1, <1>3, <2>2 DEF Count, S, T
<1>4. CASE at[t] \in places /\ at'[t] \notin places
  <2>1. T = S \ {t} /\ t \in S
    BY <1>4 DEF Steady
  <2> HIDE DEF S, T
  <2>2. Cardinality(T) = Cardinality(S) - 1
    BY <1>1, <2>1, FS_RemoveElement
  <2> QED BY <1>1, <1>4, <2>2 DEF Count, S, T
<1> QED BY <1>2, <1>3, <1>4

LEMMA CountedStep ==
  ASSUME BusTypeOK, Running, Numbered, Counted, NEW t \in Threads, Advance(t)
  PROVE  Counted'
<1> DEFINE D == Count({"describing"})
           M == Count(Tracing \cup {"root", "metering"})
           P == Cardinality({e \in published : e.emitter = emitter})
<1>1. Steady(t)
  BY AdvanceSteady
<1>2. /\ D \in Nat /\ D' \in Nat
      /\ (at[t] = "describing" <=> at'[t] = "describing") => D' = D
      /\ at[t] # "describing" /\ at'[t] = "describing" => D' = D + 1
      /\ at[t] = "describing" /\ at'[t] # "describing" => D' = D - 1
  BY <1>1, CountMoves
<1>3. LET Q == Tracing \cup {"root", "metering"}
      IN  /\ M \in Nat /\ M' \in Nat
          /\ (at[t] \in Q <=> at'[t] \in Q) => M' = M
          /\ at[t] \notin Q /\ at'[t] \in Q => M' = M + 1
          /\ at[t] \in Q /\ at'[t] \notin Q => M' = M - 1
  <2>1. (Tracing \cup {"root", "metering"})' = Tracing \cup {"root", "metering"}
    BY DEF Tracing
  <2> QED BY <1>1, <2>1, CountMoves
<1>4. telemetry \in [roots : Nat, steps : Nat, spans : Nat, turns : Nat] /\ at \in [Threads -> Place]
  BY DEF BusTypeOK
<1>5. /\ ~ seen => telemetry.roots = 0
      /\ telemetry.roots <= 1
      /\ telemetry.spans + telemetry.turns + D <= telemetry.steps
      /\ telemetry.steps + M <= P
  BY DEF Counted
<1>6. IsFiniteSet({e \in published : e.emitter = emitter}) /\ P \in Nat
  BY FS_Subset, FS_CardinalityType DEF Numbered
<1>7. published' = published => P' = P
  BY <1>1 DEF Steady
<1>8. SUFFICES /\ ~ seen' => telemetry'.roots = 0
               /\ telemetry'.roots <= 1
               /\ telemetry'.spans + telemetry'.turns + D' <= telemetry'.steps
               /\ telemetry'.steps + M' <= P'
  BY DEF Counted, Tracing
<1> HIDE DEF D, M, P
<1> USE DEF Tracing
<1>9. CASE Emit(t)
  <2>1. /\ at[t] = "idle" /\ at'[t] = "numbered" /\ published' = published
        /\ telemetry' = telemetry /\ seen' = seen
    BY <1>4, <1>9 DEF Emit, Number, Goto, otelVars
  <2> QED BY <1>2, <1>3, <1>5, <1>7, <2>1
<1>10. CASE Guard(t) /\ Step(t).secret
  <2>1. /\ at[t] = "numbered" /\ at'[t] = "idle" /\ published' = published
        /\ telemetry' = telemetry /\ seen' = seen
    BY <1>4, <1>10 DEF Guard, Goto, Return, otelVars
  <2> QED BY <1>2, <1>3, <1>5, <1>7, <2>1
<1>11. CASE Guard(t) /\ ~ Step(t).secret
  <2>1. /\ at[t] = "numbered" /\ at'[t] = "placing"
        /\ published' = published \cup {EntryOf(t)}
        /\ telemetry' = telemetry /\ seen' = seen
    BY <1>4, <1>11 DEF Guard, Goto, otelVars
  <2>2. EntryOf(t).emitter = emitter /\ EntryOf(t).number = number[t]
    BY DEF EntryOf
  <2>3. EntryOf(t) \notin published
    BY <2>1, <2>2 DEF Numbered
  <2>4. {e \in published' : e.emitter = emitter'}
          = {e \in published : e.emitter = emitter} \cup {EntryOf(t)}
    BY <1>1, <2>1, <2>2 DEF Steady
  <2>5. P' = P + 1
    BY <1>6, <2>3, <2>4, FS_AddElement DEF P
  <2>6. D' = D /\ M' = M + 1
    BY <1>2, <1>3, <2>1
  <2> QED BY <1>2, <1>3, <1>4, <1>5, <1>6, <2>1, <2>5, <2>6
<1>12. CASE Look(t)
  <2>1. /\ at[t] = "placing" /\ at'[t] \in {"root", "appending"} /\ published' = published
        /\ telemetry' = telemetry /\ seen' = seen
    BY <1>4, <1>12 DEF Look, Store, Goto, otelVars
  <2> QED BY <1>2, <1>3, <1>5, <1>7, <2>1
<1>13. CASE Append_(t)
  <2>1. /\ at[t] = "appending" /\ at'[t] = "root" /\ published' = published
        /\ telemetry' = telemetry /\ seen' = seen
    BY <1>4, <1>13 DEF Append_, Goto, otelVars
  <2> QED BY <1>2, <1>3, <1>5, <1>7, <2>1
<1>14. CASE Root(t)
  <2>1. /\ at[t] = "root" /\ at'[t] \in {"metering", "idle"} /\ published' = published
        /\ seen' = TRUE
    BY <1>4, <1>14 DEF Root, RootOnce, Goto, Return
  <2>2. /\ telemetry'.roots <= 1
        /\ telemetry'.steps = telemetry.steps
        /\ telemetry'.spans = telemetry.spans
        /\ telemetry'.turns = telemetry.turns
    BY <1>4, <1>5, <1>14 DEF Root, RootOnce
  <2>3. D' = D /\ M' \in {M, M - 1}
    BY <1>2, <1>3, <2>1
  <2> QED BY <1>2, <1>3, <1>4, <1>5, <1>6, <1>7, <2>1, <2>2, <2>3
<1>15. CASE Swallow(t)
  <2>1. /\ at[t] \in {"metering", "describing"} /\ at'[t] = "idle" /\ published' = published
        /\ telemetry' = telemetry /\ seen' = seen
    BY <1>4, <1>15 DEF Swallow, Goto, Return, otelVars
  <2>2. D' \in {D, D - 1} /\ M' \in {M, M - 1}
    BY <1>2, <1>3, <2>1
  <2> QED BY <1>2, <1>3, <1>4, <1>5, <1>6, <1>7, <2>1, <2>2
<1>16. CASE Meter(t)
  <2>1. /\ at[t] = "metering" /\ at'[t] = "describing" /\ published' = published
        /\ seen' = seen
    BY <1>4, <1>16 DEF Meter, Goto
  <2>2. /\ telemetry'.roots = telemetry.roots
        /\ telemetry'.steps = telemetry.steps + 1
        /\ telemetry'.spans = telemetry.spans
        /\ telemetry'.turns = telemetry.turns
    BY <1>4, <1>16 DEF Meter
  <2>3. D' = D + 1 /\ M' = M - 1
    BY <1>2, <1>3, <2>1
  <2> QED BY <1>2, <1>3, <1>4, <1>5, <1>6, <1>7, <2>1, <2>2, <2>3
<1>17. CASE Describe(t)
  <2>1. /\ at[t] = "describing" /\ at'[t] = "idle" /\ published' = published
        /\ seen' = seen
    BY <1>4, <1>17 DEF Describe, Goto, Return
  <2>2. /\ telemetry'.roots = telemetry.roots
        /\ telemetry'.steps = telemetry.steps
        /\ telemetry'.spans + telemetry'.turns = telemetry.spans + telemetry.turns + 1
    BY <1>4, <1>17 DEF Describe
  <2>3. D' = D - 1 /\ M' = M
    BY <1>2, <1>3, <2>1
  <2>4. telemetry'.spans \in Nat /\ telemetry'.turns \in Nat
    BY <1>4, <1>17 DEF Describe
  <2> QED BY <1>2, <1>3, <1>4, <1>5, <1>6, <1>7, <2>1, <2>2, <2>3, <2>4
<1> QED BY <1>9, <1>10, <1>11, <1>12, <1>13, <1>14, <1>15, <1>16, <1>17 DEF Advance

-----------------------------------------------------------------------------
(* A resume, and the theorem.                                               *)

LEMMA GreatestIndex ==
  ASSUME NEW n \in Nat, NEW S \in SUBSET (1 .. n), S # {}
  PROVE  Max(S) \in S
<1> DEFINE R == OpToRel(<, Nat)
           D == {n - i : i \in S}
<1>1. IsWellFoundedOn(R, Nat)
  BY NatLessThanWellFounded
<1>2. \A x, y \in Nat : <<y, x>> \in R <=> y < x
  BY DEF OpToRel
<1> HIDE DEF R
<1>3. D \subseteq Nat /\ D # {}
  <2>1. \A i \in S : n - i \in Nat
    OBVIOUS
  <2>2. PICK i \in S : TRUE
    OBVIOUS
  <2>3. n - i \in D
    BY <2>2
  <2> QED BY <2>1, <2>3
<1>4. PICK d \in D : \A y \in D : ~ (<<y, d>> \in R)
  <2> HIDE DEF D
  <2> QED BY <1>1, <1>3, WFMin
<1>5. PICK i \in S : d = n - i
  BY <1>4
<1>6. \A j \in S : i >= j
  <2> SUFFICES ASSUME NEW j \in S PROVE i >= j
    OBVIOUS
  <2>1. n - j \in D /\ n - j \in Nat /\ d \in Nat
    BY <1>3, <1>4
  <2>2. ~ (n - j < d)
    BY <1>2, <1>4, <2>1
  <2> QED BY <1>5, <2>2
<1> QED BY <1>5, <1>6 DEF Max

\* The positions a new consumer builds are those of the trace it is given.
LEMMA PositionsFacts ==
  ASSUME NEW entries \in Seq(Entry)
  PROVE  /\ PositionsOf(entries) \in [Keys -> 0 .. Len(entries)]
         /\ \A k \in Keys :
              /\ PositionsOf(entries)[k] # 0 => entries[PositionsOf(entries)[k]].key = k
              /\ \A i \in DOMAIN entries : entries[i].key = k => PositionsOf(entries)[k] # 0
<1>1. ASSUME NEW k \in Keys
      PROVE  /\ PositionsOf(entries)[k] \in 0 .. Len(entries)
             /\ PositionsOf(entries)[k] # 0 => entries[PositionsOf(entries)[k]].key = k
             /\ \A i \in DOMAIN entries : entries[i].key = k => PositionsOf(entries)[k] # 0
  <2> DEFINE I == {i \in 1 .. Len(entries) : entries[i].key = k}
  <2>1. PositionsOf(entries)[k] = IF I # {} THEN Max(I) ELSE 0
    BY DEF PositionsOf, SelectLastInSubSeq
  <2>2. I # {} => Max(I) \in I
    <3>1. I \in SUBSET (1 .. Len(entries)) /\ Len(entries) \in Nat
      OBVIOUS
    <3> QED BY <3>1, GreatestIndex
  <2> HIDE DEF I
  <2>3. I # {} => PositionsOf(entries)[k] \in I
    BY <2>1, <2>2
  <2>4. I = {} => PositionsOf(entries)[k] = 0
    BY <2>1
  <2> QED BY <2>3, <2>4 DEF I
<1>2. PositionsOf(entries) = [k \in Keys |-> PositionsOf(entries)[k]]
  BY DEF PositionsOf
<1> QED BY <1>1, <1>2

LEMMA ResumeStep ==
  ASSUME BusInductive, Resume
  PROVE  BusInductive'
<1> USE DEF BusInductive
<1>1. /\ emitter = 1 /\ emitter' = 2 /\ sequence' = 0 /\ trace' = trace /\ published' = published
      /\ positions' = PositionsOf(trace) /\ seen' = FALSE /\ telemetry' = NoTelemetry
      /\ \A t \in Threads : at[t] = "idle" /\ at'[t] = "idle" /\ emitted'[t] = 0
      /\ at' = at /\ trace \in Seq(Entry)
  BY DEF Resume, BusTypeOK
<1>2. BusTypeOK'
  <2>1. number' \in [Threads -> 0 .. sequence'] /\ slot' \in [Threads -> 0 .. Len(trace')]
    BY <1>1 DEF Resume, BusTypeOK
  <2>2. telemetry' \in [roots : Nat, steps : Nat, spans : Nat, turns : Nat]
    BY <1>1 DEF NoTelemetry
  <2>3. positions' \in [Keys -> 0 .. Len(trace')]
    BY <1>1, PositionsFacts
  <2>4. emitted' \in [Threads -> Nat] /\ blocked' \in Nat
    BY DEF Resume
  <2>5. at' \in [Threads -> Place] /\ published' \subseteq Entry
    BY <1>1 DEF BusTypeOK
  <2> QED BY <1>1, <2>1, <2>2, <2>3, <2>4, <2>5 DEF BusTypeOK
<1>3. Running'
  <2>1. \A t \in Threads : Len(Program(t)') \in Nat
    BY <1>1, ScriptsAssumption DEF Program
  <2> QED BY <1>1, <2>1 DEF Running, Active
<1>4. Numbered'
  <2>1. \A e \in published' :
          e.emitter < emitter' \/ (e.emitter = emitter' /\ e.number <= sequence')
    <3>1. ASSUME NEW e \in published PROVE e.emitter < 2
      <4>1. e \in Entry
        BY DEF BusTypeOK
      <4>2. e.emitter \in {1, 2}
        BY <4>1 DEF Entry
      <4> QED BY <1>1, <4>2 DEF Numbered
    <3> QED BY <1>1, <3>1
  <2>2. NumbersAreUnique'
    BY <1>1 DEF Numbered, NumbersAreUnique
  <2> QED BY <1>1, <2>1, <2>2 DEF Numbered, Active, Tracing, Describing
<1>5. Placed'
  <2>1. KeysOnce'
    BY <1>1 DEF Placed, KeysOnce
  <2>2. KeysPlaced'
    <3>1. \A i \in DOMAIN trace : trace[i] \in Entry
      BY <1>1
    <3>2. \A i \in DOMAIN trace : trace[i].key \in Keys
      BY <3>1 DEF Entry
    <3> QED BY <1>1, <3>2, PositionsFacts DEF KeysPlaced
  <2>3. ASSUME NEW t \in Threads PROVE Fresh(t)' /\ Aimed(t)'
    <3>1. \A i \in DOMAIN Program(t)' : Program(t)'[i].key \in Keys
      <4>1. Program(t)' \in Seq(StepType)
        BY <1>1, ScriptsAssumption DEF Program
      <4>2. \A i \in DOMAIN Program(t)' : Program(t)'[i] \in StepType
        BY <4>1
      <4> QED BY <4>2 DEF StepType
    <3>2. \A i \in Ahead(t)' : i \in DOMAIN Program(t)'
      BY DEF Ahead
    <3>3. Aimed(t)'
      BY <1>1, <3>1, <3>2, PositionsFacts DEF Aimed
    <3> QED BY <1>1, <3>3 DEF Fresh
  <2>4. Alone'
    BY <1>1, ScriptsAssumption DEF Alone
  <2>5. \A e \in published' : Tracked(e)'
    <3>1. ASSUME NEW e \in published PROVE Entered(e)
      BY <1>1 DEF Placed, Tracked, Tracing
    <3> QED BY <1>1, <3>1 DEF Tracked, Entered
  <2> QED BY <2>1, <2>2, <2>3, <2>4, <2>5 DEF Placed
<1>6. Counted'
  <2>1. Count({"describing"})' = 0
    <3>1. {t \in Threads : at'[t] \in {"describing"}} = {}
      BY <1>1
    <3> QED BY <3>1, FS_EmptySet DEF Count
  <2>2. Count(Tracing \cup {"root", "metering"})' = 0
    <3>1. {t \in Threads : at'[t] \in Tracing \cup {"root", "metering"}} = {}
      BY <1>1 DEF Tracing
    <3> QED BY <3>1, FS_EmptySet DEF Count, Tracing
  <2>3. Cardinality({e \in published' : e.emitter = emitter'}) \in Nat
    BY <1>1, FS_Subset, FS_CardinalityType DEF Numbered
  <2> QED BY <1>1, <2>1, <2>2, <2>3 DEF Counted, NoTelemetry
<1> QED BY <1>2, <1>3, <1>4, <1>5, <1>6

LEMMA BusInitHolds == BusInit => BusInductive
<1> SUFFICES ASSUME BusInit PROVE BusInductive
  OBVIOUS
<1>1. BusTypeOK
  <2>1. telemetry \in [roots : Nat, steps : Nat, spans : Nat, turns : Nat]
    BY DEF BusInit, NoTelemetry
  <2>2. trace \in Seq(Entry) /\ Len(trace) = 0
    BY DEF BusInit
  <2>3. at \in [Threads -> Place] /\ emitted \in [Threads -> Nat]
    BY DEF BusInit, Place
  <2>4. /\ number \in [Threads -> 0 .. sequence]
        /\ slot \in [Threads -> 0 .. Len(trace)]
        /\ positions \in [Keys -> 0 .. Len(trace)]
    BY <2>2 DEF BusInit
  <2> QED BY <2>1, <2>2, <2>3, <2>4 DEF BusInit, BusTypeOK
<1>2. Running
  BY Programs DEF BusInit, Running, Active
<1>3. Numbered
  BY FS_EmptySet DEF BusInit, Numbered, NumbersAreUnique, Active, Tracing, Describing
<1>4. Placed
  <2>1. KeysOnce /\ KeysPlaced
    BY DEF BusInit, KeysOnce, KeysPlaced
  <2>2. ASSUME NEW t \in Threads PROVE Fresh(t) /\ Aimed(t)
    <3>1. \A i \in Ahead(t) : Program(t)[i].key \in Keys
      <4>1. Program(t) \in Seq(StepType)
        BY Programs
      <4>2. \A i \in DOMAIN Program(t) : Program(t)[i] \in StepType
        BY <4>1
      <4> QED BY <4>2 DEF StepType, Ahead
    <3> QED BY <3>1 DEF BusInit, Fresh, Aimed
  <2>3. Alone
    BY ScriptsAssumption DEF BusInit, Alone
  <2> QED BY <2>1, <2>2, <2>3 DEF BusInit, Placed
<1>5. Counted
  <2>1. Count({"describing"}) = 0
    <3>1. {t \in Threads : at[t] \in {"describing"}} = {}
      BY DEF BusInit
    <3> QED BY <3>1, FS_EmptySet DEF Count
  <2>2. Count(Tracing \cup {"root", "metering"}) = 0
    <3>1. {t \in Threads : at[t] \in Tracing \cup {"root", "metering"}} = {}
      BY DEF BusInit, Tracing
    <3> QED BY <3>1, FS_EmptySet DEF Count
  <2>3. Cardinality({e \in published : e.emitter = emitter}) = 0
    <3>1. {e \in published : e.emitter = emitter} = {}
      BY DEF BusInit
    <3> QED BY <3>1, FS_EmptySet
  <2> QED BY <2>1, <2>2, <2>3 DEF BusInit, Counted, NoTelemetry
<1> QED BY <1>1, <1>2, <1>3, <1>4, <1>5 DEF BusInductive

LEMMA BusStepHolds == BusInductive /\ [BusNext]_busVars => BusInductive'
<1> SUFFICES ASSUME BusInductive, [BusNext]_busVars PROVE BusInductive'
  OBVIOUS
<1>1. ASSUME NEW t \in Threads, Advance(t) PROVE BusInductive'
  BY <1>1, TypeStep, RunningStep, NumberedStep, PlacedStep, CountedStep DEF BusInductive
<1>2. CASE Resume
  BY <1>2, ResumeStep
<1>3. CASE UNCHANGED busVars
  <2> USE <1>3 DEF busVars, threadVars, traceVars, otelVars
  <2>1. BusTypeOK'
    BY DEF BusInductive, BusTypeOK
  <2>2. Running'
    BY DEF BusInductive, Running, Active, Finished, Step, Program
  <2>3. Numbered'
    BY DEF BusInductive, Numbered, NumbersAreUnique, Active, EntryOf, Step, Program
  <2>4. Placed'
    BY DEF BusInductive, Placed, KeysOnce, KeysPlaced, Fresh, Aimed, Ahead, Alone, Tracked,
           Entered, EntryOf, Step, Program
  <2>5. Counted'
    BY DEF BusInductive, Counted, Count
  <2> QED BY <2>1, <2>2, <2>3, <2>4, <2>5 DEF BusInductive
<1> QED BY <1>1, <1>2, <1>3 DEF BusNext

LEMMA BusSound == BusInductive => TraceIsSound
<1> SUFFICES ASSUME BusInductive PROVE TraceIsSound
  OBVIOUS
<1>1. NumbersAreUnique
  BY DEF BusInductive, Numbered
<1>2. TraceKeepsSteps
  <2>1. ASSUME NEW e \in published, Traced(e) PROVE Entered(e)
    <3>1. Tracked(e)
      BY DEF BusInductive, Placed
    <3> QED BY <2>1, <3>1 DEF BusInductive, Running, Tracked, Traced, Tracing, Active
  <2>2. KeysOnce
    BY DEF BusInductive, Placed
  <2> QED BY <2>1, <2>2 DEF TraceKeepsSteps, Entered, KeysOnce
<1>3. OneRoot
  <2>1. Count({"describing"}) \in Nat /\ Count(Tracing \cup {"root", "metering"}) \in Nat
    BY ScriptsAssumption, FS_Subset, FS_CardinalityType DEF Count
  <2>2. /\ telemetry.spans \in Nat /\ telemetry.turns \in Nat /\ telemetry.steps \in Nat
        /\ Cardinality({e \in published : e.emitter = emitter}) \in Nat
    BY FS_Subset, FS_CardinalityType DEF BusInductive, Numbered, BusTypeOK
  <2> QED BY <2>1, <2>2 DEF BusInductive, Counted, OneRoot
<1> QED BY <1>1, <1>2, <1>3 DEF BusInductive, TraceIsSound

\* TraceIsSound: the trace of a run is well-formed whatever the threads' interleaving.
THEOREM TraceSound == BusSpec => []TraceIsSound
<1>1. BusInit => BusInductive
  BY BusInitHolds
<1>2. BusInductive /\ [BusNext]_busVars => BusInductive'
  BY BusStepHolds
<1>3. BusInductive => TraceIsSound
  BY BusSound
<1> QED BY <1>1, <1>2, <1>3, PTL DEF BusSpec
=============================================================================
