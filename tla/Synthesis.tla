------------------------------ MODULE Synthesis ------------------------------
(***************************************************************************)
(* The synthesis of a run (agents/synthesis_department.py, the synthesis     *)
(* phase and the readiness assessment of pipeline_runner.py and              *)
(* orchestration/synthesis.py): a group chat whose lead may finalize, the     *)
(* Supervisor's gate on what leaves it, and the assessment that decides        *)
(* what the run may be called.                                              *)
(*                                                                          *)
(* Texts are abstracted to what the gates ask of them; the evidence of the    *)
(* first round enters as a record of the counts and flags the assessment       *)
(* reads.                                                                   *)
(***************************************************************************)
EXTENDS GroupChat, Integers, FiniteSets, Packages

CONSTANTS MaxRound,      \* messages of one chat
          MaxBundle,     \* model bound: tool calls in one message
          Findings       \* the first rounds considered

\* The departments with a section each, and the synthesis tasks of the catalogue.
Researching == {"Company", "Market", "Buyer", "Contact"}
SynthesisTasks == 2

\* A department's package as the gate left it.  A failed gate has a hard blocker,
\* public or internal to the customer; a fallback package has no gate.
Admitted == {p \in [gate : {"passed", "absent", "public", "internal"},
                    decision : AdmissionDecision] :
               p.gate \in {"public", "internal"} => p.decision = "rejected"}

\* The contact enrichment stage: quality of the coverage, target and verified
\* decision-makers, contacts listed.
ContactStage ==
  [coverage : {"none", "low", "fair"}, targets : 0 .. 2, verified : BOOLEAN, listed : 0 .. 2]

\* The Company section's finances, and the primary source stage made of it.
PrimaryStage ==
  [key : 0 .. 2, inventory : BOOLEAN, sheet : BOOLEAN, risks : BOOLEAN,
   appraised : BOOLEAN, hard : 0 .. 2, primary : BOOLEAN]

\* Validated buyers, and whether the section has routes to monetize.
RouteFacts == [buyers : 0 .. 2, monetization : BOOLEAN]

\* What the memory store holds, as the quality review counts it.
EvidenceFacts ==
  [accepted : Nat, degraded : Nat, external : Nat, unresolved : BOOLEAN,
   packets : Nat, gaps : Nat, described : BOOLEAN]

\* What the assessment reads of a first round.
Finding ==
  [packages : [Researching -> Admitted],
   named    : SUBSET (Researching \ {"Contact"}),  \* sections that name their subject
   contacts : ContactStage, finance : PrimaryStage,
   routes   : RouteFacts, evidence : EvidenceFacts]

FinancialSignals(f) == f.finance.inventory \/ f.finance.sheet \/ f.finance.risks

\* A rejected section is an empty artifact; an accepted department has accepted a task.
Consistent(f) ==
  /\ f.packages["Company"].decision = "rejected" =>
       f.finance.key = 0 /\ ~ FinancialSignals(f) /\ ~ f.finance.appraised
         /\ ~ f.evidence.described
  /\ f.packages["Market"].decision = "rejected" => ~ f.evidence.described
  /\ f.packages["Buyer"].decision = "rejected" => f.routes.buyers = 0 /\ ~ f.routes.monetization
  /\ f.packages["Contact"].decision = "rejected" =>
       f.contacts.coverage = "none" /\ f.contacts.targets = 0 /\ f.contacts.listed = 0
  /\ \A d \in f.named : f.packages[d].decision # "rejected"
  /\ f.evidence.accepted
       >= Cardinality({d \in Researching : f.packages[d].decision = "accepted"})
  /\ f.finance.key = 0 /\ ~ FinancialSignals(f) => f.finance.hard = 0
  /\ f.contacts.verified => f.contacts.targets > 0
  /\ f.contacts.targets + f.contacts.listed > 0 <=> f.contacts.coverage # "none"

ASSUME FindingsAssumption ==
  /\ Findings \subseteq Finding
  /\ MaxRound \in Nat \ {0} /\ MaxBundle \in Nat \ {0}
  /\ {"analyst", "critic", "judge"} = ToSet(Members)

VARIABLES
  pc,        \* "chat", "delivered", "assessed", or "raised"
  speaker, message, turns, round, finalized,   \* locals of run()
  synthesis, \* what run() returned, None before
  finding,   \* the first round assessed, None before
  readiness  \* what assess_research_readiness returned, None before

chatVars == <<speaker, message, turns, round, finalized>>
vars == <<pc, chatVars, synthesis, finding, readiness>>

\* The functions each role was registered as the caller of.
Tools(role) ==
  CASE role = "analyst" -> {"read_report_segment"}
    [] role = "lead"    -> {"request_department_followup", "finalize_synthesis"}
    [] OTHER            -> {}

Bundles(role) == UNION {[1 .. n -> Tools(role)] : n \in 1 .. MaxBundle}

(***************************************************************************)
(* The chat.                                                                *)
(***************************************************************************)
\* initiate_chat: the lead's opening message.
Init ==
  /\ pc = "chat"
  /\ speaker = "lead"
  /\ message \in {Text(named, FALSE) : named \in SUBSET ToSet(Members)}
  /\ turns = NoTurns
  /\ round = 1
  /\ finalized = "no"
  /\ synthesis = None /\ finding = None /\ readiness = None

Over == message.final \/ round >= MaxRound

\* Mutant: the rounds are not counted.
SayUncounted(next, m) ==
  /\ pc = "chat" /\ ~ Over
  /\ next = NextSpeaker(speaker, message)
  /\ turns' = Counted(turns, speaker, message)
  /\ speaker' = next
  /\ message' = m
  /\ UNCHANGED <<pc, round, synthesis, finding, readiness>>

\* Everything a selection changes.
Say(next, m) ==
  /\ pc = "chat" /\ ~ Over
  /\ next = NextSpeaker(speaker, message)
  /\ turns' = Counted(turns, speaker, message)
  /\ speaker' = next
  /\ message' = m
  /\ round' = round + 1
  /\ UNCHANGED <<pc, synthesis, finding, readiness>>

SpeakText ==
  \E role \in Roles \ {"executor"}, named \in SUBSET ToSet(Members), final \in BOOLEAN :
    /\ role # "lead" => named = {}
    /\ Say(role, Text(named, final))
    /\ UNCHANGED finalized

CallTools ==
  \E role \in Roles \ {"executor"} : \E bundle \in Bundles(role) :
    /\ Say(role, Calls(bundle))
    /\ UNCHANGED finalized

\* Mutant: the executor's answer to finalize_synthesis does not end the chat.
ExecuteUnended ==
  /\ message.kind = "calls"
  /\ Say("executor", Result(FALSE))
  /\ finalized' = IF "finalize_synthesis" \in Range(message.bundle) THEN "sound" ELSE finalized

\* The bundle in order; only finalize_synthesis changes what happens next (a back
\* request is recorded for the artifact).  The executive summary the lead passes may
\* be too short for the Supervisor, or one of those the assessment takes for
\* incomplete.
Execute ==
  /\ message.kind = "calls"
  /\ LET ends == "finalize_synthesis" \in Range(message.bundle)
     IN /\ Say("executor", Result(ends))
        /\ IF ends THEN finalized' \in {"sound", "short", "incomplete"}
                   ELSE UNCHANGED finalized

\* The locals of run() are gone when it has returned or raised.
Forget ==
  /\ speaker' = "lead" /\ message' = Text({}, FALSE) /\ turns' = NoTurns
  /\ round' = 0 /\ finalized' = "no"

\* run() returns what was finalized, or the fallback, which promotes the context and
\* says that it is incomplete.
Deliver ==
  /\ pc = "chat" /\ Over
  /\ synthesis' = IF finalized # "no" THEN [mode |-> "normal", summary |-> finalized]
                                     ELSE [mode |-> "fallback", summary |-> "incomplete"]
  /\ pc' = "delivered"
  /\ Forget
  /\ UNCHANGED <<finding, readiness>>

\* A model call or a callback raises out of the chat.
Raise ==
  /\ pc = "chat"
  /\ pc' = "raised"
  /\ Forget
  /\ UNCHANGED <<synthesis, finding, readiness>>

(***************************************************************************)
(* The Supervisor's gate and the quality review.                            *)
(***************************************************************************)
\* A section names its subject unless it says "n/v"; the artifact of a rejected
\* section says nothing at all.
Complete(f, d) == d \in f.named \/ f.packages[d].decision = "rejected"

\* accept_synthesis; the target is the company's name in the synthesis context,
\* "n/v" for a section without one.
Acceptance(s, f) ==
  IF "Company" \notin f.named THEN "rejected"
  ELSE IF s.mode = "normal" /\ s.summary # "short" THEN "accepted"
  ELSE "accepted_with_gaps"

\* Mutant: degraded tasks count without a cap.
EvidenceHealthUncapped(f, decision) ==
  LET usable == f.evidence.accepted + f.evidence.degraded + SynthesisTasks
  IN IF usable >= 8 /\ f.evidence.external >= 2 /\ ~ f.evidence.unresolved THEN "high"
     ELSE IF (usable >= 5 /\ f.evidence.external >= 1) \/ (usable >= 4 /\ f.evidence.packets >= 5) THEN "medium"
     ELSE "low"

\* build_quality_review on the task statuses, those of the synthesis included.
EvidenceHealth(f, decision) ==
  LET accepted == f.evidence.accepted + IF decision = "accepted" THEN SynthesisTasks ELSE 0
      degraded == f.evidence.degraded + IF decision = "accepted" THEN 0 ELSE SynthesisTasks
      usable   == accepted + IF degraded < 3 THEN degraded ELSE 3
  IN IF usable >= 8 /\ f.evidence.external >= 2 /\ ~ f.evidence.unresolved THEN "high"
     ELSE IF (usable >= 5 /\ f.evidence.external >= 1) \/ (usable >= 4 /\ f.evidence.packets >= 5) THEN "medium"
     ELSE "low"

(***************************************************************************)
(* Harmonizing the synthesis with the evidence.                             *)
(***************************************************************************)
\* How strong the routes to buyers are, and whether they count.
RouteStrength(f) ==
  f.routes.buyers + f.contacts.listed + (IF f.routes.monetization THEN 1 ELSE 0)

BuyerRoutes(f) == RouteStrength(f) >= 4 /\ f.contacts.listed >= 2

\* _service_relevance of excess_inventory is not "unclear": a score of 2, which any
\* financial signal reaches and any buyer route; without both it is capped at 1.
ExcessPath(f) == FinancialSignals(f) \/ BuyerRoutes(f)

\* Mutant: only the opportunity summary is searched for the markers of a
\* synthesis that did not complete, after it was rewritten for a new top path.
ActionableBySummary(s, decision, f) ==
  /\ decision # "rejected"
  /\ s.mode = "normal" => s.summary # "incomplete"
  /\ s.mode = "fallback" => ExcessPath(f)

\* _synthesis_is_actionable of the harmonized synthesis: not blocked, and not the
\* fallback, whose executive summary says that it is incomplete.
Actionable(s, decision, f) == decision # "rejected" /\ s.summary # "incomplete"

(***************************************************************************)
(* assess_research_readiness.                                               *)
(***************************************************************************)
FinancialSubstance(f) ==
  LET buckets == Cardinality({i \in 1 .. 4 : <<f.finance.key > 0, f.finance.inventory, f.finance.sheet, f.finance.risks>>[i]})
  IN \/ buckets >= 3
     \/ f.finance.appraised /\ buckets >= 2
     \/ f.finance.key >= 2 /\ (f.finance.inventory \/ f.finance.sheet)

TargetCoverage(f) == f.contacts.targets >= 2 \/ (f.contacts.targets = 1 /\ f.contacts.coverage = "fair")

When(b, n) == IF b THEN n ELSE 0

\* The score against its threshold.  (It is kept from falling below zero, which only
\* its display can tell.)
Score(f, health, actionable) ==
  When(Complete(f, "Company"), 30) + When(Complete(f, "Market"), 20)
    + When(Complete(f, "Buyer"), 15)
    + When(f.contacts.coverage = "fair", 15) + When(f.contacts.coverage = "low", 8)
    + When(health = "high", 20) + When(health = "medium", 10)
    + When(health = "low" /\ f.evidence.described, 5)
    - When(f.evidence.gaps > 12, 8)
    - When(~ actionable, 20)
    - When(ExcessPath(f) /\ ~ FinancialSubstance(f), 15)
    - When(~ TargetCoverage(f), 10)

\* The availabilities of the hard blockers: no decision-maker (public search counts
\* as exhausted whenever none is verified), too few hard signals, failed gates.
Blockers(f) ==
  (IF f.contacts.verified THEN {} ELSE {"internal"})
    \cup (IF f.finance.hard >= 2 THEN {} ELSE IF f.finance.primary THEN {"internal"} ELSE {"public"})
    \cup ({f.packages[d].gate : d \in Researching} \cap {"public", "internal"})

Usable(s, f) ==
  LET decision == Acceptance(s, f)
      health   == EvidenceHealth(f, decision)
  IN /\ Score(f, health, Actionable(s, decision, f)) >= 60
     /\ health # "low" /\ Actionable(s, decision, f)
     /\ ExcessPath(f) => FinancialSubstance(f)
     /\ TargetCoverage(f)
     /\ Blockers(f) = {}

\* discovery_ready, of what is not usable; a core score of 30 is the company's.
Discovery(s, f) ==
  /\ Blockers(f) = {"internal"}
  /\ Complete(f, "Company")
  /\ Actionable(s, Acceptance(s, f), f)

Assessed(s, f) ==
  [usable    |-> Usable(s, f),
   discovery |-> ~ Usable(s, f) /\ Discovery(s, f),
   weak      |-> EvidenceHealth(f, Acceptance(s, f)) = "low",
   public    |-> "public" \in Blockers(f),
   internal  |-> "internal" \in Blockers(f)]

\* The synthesis phase's gate and _finalize_readiness up to the assessment.
Assess ==
  /\ pc = "delivered"
  /\ \E f \in Findings :
       /\ Consistent(f)
       /\ finding' = f
       /\ readiness' = Assessed(synthesis, f)
  /\ pc' = "assessed"
  /\ UNCHANGED <<chatVars, synthesis>>

Chat == SpeakText \/ CallTools \/ Execute \/ Deliver

Next == Chat \/ Raise \/ Assess

\* The chat is a loop of one thread that nothing waits for.
Spec == Init /\ [][Next]_vars /\ WF_vars(Chat)

(***************************************************************************)
(* Properties.                                                              *)
(***************************************************************************)
\* Every variable has its type.
TypeOK ==
  /\ pc \in {"chat", "delivered", "assessed", "raised"}
  /\ speaker \in Roles
  /\ message.kind \in {"text", "calls", "result"}
  /\ turns \in [ToSet(Members) -> 0 .. MaxTextTurns]
  /\ round \in 0 .. MaxRound
  /\ finalized \in {"no", "sound", "short", "incomplete"}
  /\ synthesis = None \/ synthesis.mode \in {"normal", "fallback"}
  /\ finding # None => Consistent(finding)
  /\ readiness = None <=> pc # "assessed"

\* finalize_synthesis is the last thing that happens in a chat: whatever else the
\* bundle holds, the executor's answer ends it, so nobody speaks after the result
\* was stored (the selectors' TERMINATE handling).
FinalizeIsFinal == pc = "chat" /\ finalized # "no" => message.final

\* The loop guard of the selector has nothing to do: every text of a member goes to
\* the lead, whose turn clears the counters, so none reaches a second text in a row.
LoopGuardIdle == \A m \in ToSet(Members) : turns[m] <= 1

\* The chat keeps its turn order: every state is well-typed, nobody speaks after
\* the result, and the selector's loop guard is never what ends a monologue.
ChatIsOrderly == TypeOK /\ FinalizeIsFinal /\ LoopGuardIdle

\* What the assessment may say is what the rest of the run relies on (RunLifecycle
\* takes any record of this set): a run that is ready has no blockers, one that is
\* fit for discovery has internal blockers alone.
ReadinessAsAssumed == readiness # None => readiness \in Readiness

\* A chat that ran out of rounds, or a synthesis the Supervisor did not accept, never
\* makes a run ready, not even for discovery, however good the departments were and
\* whatever harmonizing made of its summary.
IncompleteIsNeverReady ==
  readiness # None /\ (readiness.usable \/ readiness.discovery)
    => /\ synthesis.mode = "normal"
       /\ Acceptance(synthesis, finding) # "rejected"

\* No run is ready while the policy gate of a department has failed, for whatever
\* reason it failed; a public one rules out discovery as well.
FailedGateBlocks ==
  readiness # None =>
    \A d \in Researching :
      /\ readiness.usable => finding.packages[d].gate \in {"passed", "absent"}
      /\ readiness.discovery => finding.packages[d].gate # "public"

\* A run is ready only on a Company package the Supervisor let through, with a name:
\* a rejected section is an artifact without that name, which the score takes for a
\* complete section; the synthesis gate is what stops it.
ReadyOnAdmittedCompany ==
  readiness # None /\ (readiness.usable \/ readiness.discovery) =>
    /\ finding.packages["Company"].decision # "rejected"
    /\ "Company" \in finding.named

\* Degraded tasks alone make no evidence, however many there are: a run is ready only
\* when research was accepted, or the synthesis itself.
ReadyEvidenceIsEarned ==
  readiness # None /\ readiness.usable =>
    finding.evidence.accepted > 0 \/ Acceptance(synthesis, finding) = "accepted"

\* A readiness verdict is consistent and rests on a company and on evidence, in
\* whatever way score, gates and blockers combine (assess_research_readiness).
VerdictIsEarned == ReadinessAsAssumed /\ ReadyOnAdmittedCompany /\ ReadyEvidenceIsEarned

\* What failed on the way, the chat, the acceptance or a policy gate, is never
\* outweighed by what went well (assess_research_readiness).
FailuresBlock == IncompleteIsNeverReady /\ FailedGateBlocks

\* Every chat comes to an end: max_round bounds it whoever speaks.
ChatEnds == <>(pc # "chat")
=============================================================================
