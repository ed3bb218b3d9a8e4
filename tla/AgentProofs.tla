---------------------------- MODULE AgentProofs ----------------------------
(***************************************************************************)
(* The agents that work with a language model.                             *)
(*                                                                          *)
(* First the synthesis chat and the readiness verdict, for any members of the  *)
(* chat, any bound on its rounds and any first rounds.  The chat part rests on *)
(* who can speak after whom: a member speaks only after a text of the lead,    *)
(* which cleared the counters.  The verdict part rests on what is assessed      *)
(* being a synthesis that run() can return and a first round that is            *)
(* consistent.                                                              *)
(*                                                                          *)
(* Then the research worker, for any tasks, queries, pages, limits and         *)
(* sources.  What it does to a list of                                       *)
(* sources is computed element by element, so that part begins with induction  *)
(* over the natural numbers, for sets of numbers, and what Extended and Cut     *)
(* return for every pair of lists.                                          *)
(***************************************************************************)
EXTENDS Synthesis, ResearchWorker, WellFoundedInduction, SequenceTheorems, TLAPS


\* What run() returns.
Returned ==
  [mode : {"normal"}, summary : {"sound", "short", "incomplete"}]
    \cup [mode : {"fallback"}, summary : {"incomplete"}]

\* Members speak when nobody has spoken since the lead.
Routed == speaker \in ToSet(Members) => turns = NoTurns

\* The verdict is that of the synthesis and the first round that are recorded.
Judged ==
  /\ pc \in {"delivered", "assessed"} => synthesis \in Returned
  /\ pc = "assessed" => /\ finding \in Findings /\ Consistent(finding)
                        /\ readiness = Assessed(synthesis, finding)

Inductive == ChatIsOrderly /\ message.final \in BOOLEAN /\ Routed /\ Judged

-----------------------------------------------------------------------------
LEMMA RolesApart ==
  /\ "lead" \notin ToSet(Members) /\ "executor" \notin ToSet(Members)
  /\ Roles = ToSet(Members) \cup {"lead", "executor"}
BY MembersAssumption DEF ToSet, Roles

\* After anything but a text of the lead, the executor or the lead is next.
LEMMA MembersFollowLead ==
  ASSUME NEW speaker1, NEW m, NextSpeaker(speaker1, m) \in ToSet(Members),
         m.kind \in {"text", "calls", "result"}
  PROVE  m.kind = "text" /\ speaker1 = "lead"
BY RolesApart DEF NextSpeaker

\* What a selection does to the counters.
LEMMA CountedFacts ==
  ASSUME NEW t \in [ToSet(Members) -> 0 .. MaxTextTurns], NEW r \in Roles, NEW m,
         m.kind \in {"text", "calls", "result"},
         \A x \in ToSet(Members) : t[x] <= 1,
         r \in ToSet(Members) => t = NoTurns
  PROVE  /\ Counted(t, r, m) \in [ToSet(Members) -> 0 .. MaxTextTurns]
         /\ \A x \in ToSet(Members) : Counted(t, r, m)[x] <= 1
         /\ m.kind = "text" /\ r = "lead" => Counted(t, r, m) = NoTurns
<1>1. MaxTextTurns \in Nat \ {0}
  BY MembersAssumption
<1>2. NoTurns \in [ToSet(Members) -> 0 .. MaxTextTurns] /\ \A x \in ToSet(Members) : NoTurns[x] = 0
  BY <1>1 DEF NoTurns
<1>3. CASE m.kind = "calls"
  <2>1. Counted(t, r, m) = [x \in ToSet(Members) |-> IF x = r THEN 0 ELSE t[x]]
    BY <1>3 DEF Counted
  <2> QED BY <1>1, <1>3, <2>1
<1>4. CASE m.kind # "calls" /\ r = "executor"
  BY <1>4, RolesApart DEF Counted
<1>5. CASE m.kind # "calls" /\ r = "lead"
  BY <1>2, <1>5 DEF Counted
<1>6. CASE m.kind # "calls" /\ r \in ToSet(Members)
  <2>1. Counted(t, r, m) = [t EXCEPT ![r] = IF @ + 1 >= MaxTextTurns THEN 0 ELSE @ + 1]
    BY <1>6, RolesApart DEF Counted
  <2>2. t[r] = 0
    BY <1>2, <1>6
  <2>3. (IF t[r] + 1 >= MaxTextTurns THEN 0 ELSE t[r] + 1) \in {0, 1}
    BY <2>2
  <2>4. (IF t[r] + 1 >= MaxTextTurns THEN 0 ELSE t[r] + 1) \in 0 .. MaxTextTurns
    BY <1>1, <2>2
  <2> QED BY <1>6, <2>1, <2>3, <2>4, RolesApart
<1> QED BY <1>3, <1>4, <1>5, <1>6, RolesApart

\* A selection keeps the order of the chat, if the message is one of the three
\* kinds and is the last when something was finalized.
LEMMA SayStep ==
  ASSUME Inductive, NEW next \in Roles, NEW m, Say(next, m),
         m.kind \in {"text", "calls", "result"}, m.final \in BOOLEAN,
         finalized' \in {"no", "sound", "short", "incomplete"},
         finalized' # "no" => finalized' = finalized \/ m.final
  PROVE  Inductive'
<1>1. /\ pc = "chat" /\ ~ Over /\ next = NextSpeaker(speaker, message)
      /\ turns' = Counted(turns, speaker, message)
      /\ speaker' = next /\ message' = m /\ round' = round + 1
      /\ UNCHANGED <<pc, synthesis, finding, readiness>>
  BY DEF Say
<1>2. /\ TypeOK /\ FinalizeIsFinal /\ LoopGuardIdle /\ Routed /\ Judged
  BY DEF Inductive, ChatIsOrderly
<1>3. /\ turns' \in [ToSet(Members) -> 0 .. MaxTextTurns]
      /\ \A x \in ToSet(Members) : turns'[x] <= 1
      /\ message.kind = "text" /\ speaker = "lead" => turns' = NoTurns
  BY <1>1, <1>2, CountedFacts DEF TypeOK, LoopGuardIdle, Routed
<1>4. round' \in 0 .. MaxRound
  BY <1>1, <1>2, FindingsAssumption DEF Over, TypeOK
<1>5. finalized = "no"
  BY <1>1, <1>2 DEF Over, FinalizeIsFinal
<1>6. TypeOK'
  BY <1>1, <1>2, <1>3, <1>4 DEF TypeOK, Consistent, FinancialSignals
<1>7. FinalizeIsFinal'
  BY <1>1, <1>5 DEF FinalizeIsFinal
<1>8. Routed'
  BY <1>1, <1>2, <1>3, MembersFollowLead DEF Routed, TypeOK
<1>9. Judged'
  BY <1>1, <1>2 DEF Judged
<1> QED BY <1>1, <1>3, <1>6, <1>7, <1>8, <1>9 DEF Inductive, ChatIsOrderly, LoopGuardIdle

LEMMA InitInductive == Init => Inductive
<1> SUFFICES ASSUME Init PROVE Inductive
  OBVIOUS
<1>1. MaxTextTurns \in Nat \ {0} /\ MaxRound \in Nat \ {0}
  BY MembersAssumption, FindingsAssumption
<1>2. NoTurns \in [ToSet(Members) -> 0 .. MaxTextTurns] /\ \A x \in ToSet(Members) : NoTurns[x] = 0
  BY <1>1 DEF NoTurns
<1>3. message.kind = "text" /\ message.final = FALSE
  BY DEF Init, Text
<1>4. TypeOK
  BY <1>1, <1>2, <1>3, RolesApart DEF Init, TypeOK
<1>5. FinalizeIsFinal /\ LoopGuardIdle /\ Routed /\ Judged
  BY <1>2, RolesApart DEF Init, FinalizeIsFinal, LoopGuardIdle, Routed, Judged
<1> QED BY <1>3, <1>4, <1>5 DEF Inductive, ChatIsOrderly

\* run() is over: its locals are as before it.
LEMMA ForgetStep ==
  ASSUME Inductive, Forget, pc' \in {"delivered", "raised"},
         UNCHANGED <<finding, readiness>>, readiness = None,
         synthesis' = synthesis \/ synthesis' \in Returned,
         pc' = "delivered" => synthesis' \in Returned
  PROVE  Inductive'
<1>1. MaxTextTurns \in Nat \ {0} /\ MaxRound \in Nat \ {0}
  BY MembersAssumption, FindingsAssumption
<1>2. NoTurns \in [ToSet(Members) -> 0 .. MaxTextTurns] /\ \A x \in ToSet(Members) : NoTurns[x] = 0
  BY <1>1 DEF NoTurns
<1>3. /\ speaker' = "lead" /\ message'.kind = "text" /\ message'.final = FALSE /\ turns' = NoTurns
      /\ round' = 0 /\ finalized' = "no"
  BY DEF Forget, Text
<1>4. synthesis' = None \/ synthesis'.mode \in {"normal", "fallback"}
  BY DEF Inductive, ChatIsOrderly, TypeOK, Returned
<1>5. (finding # None => Consistent(finding))'
  BY DEF Inductive, ChatIsOrderly, TypeOK, Consistent, FinancialSignals
<1>6. TypeOK'
  BY <1>1, <1>2, <1>3, <1>4, <1>5, RolesApart DEF TypeOK
<1>7. FinalizeIsFinal' /\ LoopGuardIdle' /\ Routed' /\ Judged'
  BY <1>2, <1>3 DEF FinalizeIsFinal, LoopGuardIdle, Routed, Judged
<1> QED BY <1>3, <1>6, <1>7 DEF Inductive, ChatIsOrderly

\* The records of a verdict are no None.
LEMMA AssessedIsSome == \A s, f : Assessed(s, f) # None
<1> SUFFICES ASSUME NEW s, NEW f PROVE Assessed(s, f) # None
  OBVIOUS
<1>1. "usable" \in DOMAIN Assessed(s, f)
  BY DEF Assessed
<1>2. DOMAIN None = {"none"}
  BY DEF None
<1> QED BY <1>1, <1>2

LEMMA AssessStep == ASSUME Inductive, Assess PROVE Inductive'
<1>1. PICK f \in Findings :
        Consistent(f) /\ finding' = f /\ readiness' = Assessed(synthesis, f)
  BY DEF Assess
<1>2. /\ pc = "delivered" /\ pc' = "assessed"
      /\ UNCHANGED <<speaker, message, turns, round, finalized, synthesis>>
  BY DEF Assess, chatVars
<1>3. TypeOK /\ LoopGuardIdle /\ Routed /\ Judged /\ message.final \in BOOLEAN
  BY DEF Inductive, ChatIsOrderly
<1>4. (finding # None => Consistent(finding))'
  BY <1>1 DEF Consistent, FinancialSignals
<1>5. readiness' # None
  BY <1>1, AssessedIsSome
<1>6. TypeOK'
  BY <1>2, <1>3, <1>4, <1>5 DEF TypeOK
<1>7. Judged'
  <2>1. Consistent(finding)'
    BY <1>1 DEF Consistent, FinancialSignals
  <2>2. readiness' = Assessed(synthesis', finding')
    BY <1>1, <1>2
  <2>3. (readiness = Assessed(synthesis, finding))'
    BY <2>2 DEF Assessed, Usable, Discovery, Acceptance, EvidenceHealth, Blockers, Score, Actionable,
                Complete, ExcessPath, FinancialSubstance, TargetCoverage, FinancialSignals,
                BuyerRoutes, RouteStrength, When
  <2> QED BY <1>1, <1>2, <1>3, <2>1, <2>3 DEF Judged
<1>8. FinalizeIsFinal' /\ LoopGuardIdle' /\ Routed'
  BY <1>2, <1>3 DEF FinalizeIsFinal, LoopGuardIdle, Routed
<1> QED BY <1>2, <1>3, <1>6, <1>7, <1>8 DEF Inductive, ChatIsOrderly

LEMMA StepInductive == Inductive /\ [Next]_vars => Inductive'
<1> SUFFICES ASSUME Inductive, [Next]_vars PROVE Inductive'
  OBVIOUS
<1>1. TypeOK
  BY DEF Inductive, ChatIsOrderly
<1>2. CASE SpeakText
  <2>1. PICK role \in Roles \ {"executor"}, named \in SUBSET ToSet(Members), final \in BOOLEAN :
          Say(role, Text(named, final)) /\ finalized' = finalized
    BY <1>2 DEF SpeakText
  <2>2. Text(named, final).kind = "text" /\ Text(named, final).final \in BOOLEAN
    BY DEF Text
  <2> QED BY <1>1, <2>1, <2>2, SayStep DEF TypeOK
<1>3. CASE CallTools
  <2>1. PICK role \in Roles \ {"executor"} : \E bundle \in Bundles(role) :
          Say(role, Calls(bundle)) /\ finalized' = finalized
    BY <1>3 DEF CallTools
  <2>2. PICK bundle \in Bundles(role) : Say(role, Calls(bundle)) /\ finalized' = finalized
    BY <2>1
  <2>3. Calls(bundle).kind = "calls" /\ Calls(bundle).final \in BOOLEAN
    BY DEF Calls
  <2> QED BY <1>1, <2>2, <2>3, SayStep DEF TypeOK
<1>4. CASE Execute
  <2> DEFINE ends == "finalize_synthesis" \in Range(message.bundle)
  <2>1. /\ Say("executor", Result(ends))
        /\ ends \in BOOLEAN
        /\ finalized' = finalized \/ (ends /\ finalized' \in {"sound", "short", "incomplete"})
    BY <1>4 DEF Execute
  <2> HIDE DEF ends
  <2>2. Result(ends).kind = "result" /\ Result(ends).final = ends
    BY DEF Result
  <2>3. "executor" \in Roles
    BY RolesApart
  <2> QED BY <1>1, <2>1, <2>2, <2>3, SayStep DEF TypeOK
<1>5. CASE Deliver
  <2>1. synthesis' \in Returned
    BY <1>1, <1>5 DEF Deliver, Returned, TypeOK
  <2>2. readiness = None
    BY <1>1, <1>5 DEF Deliver, TypeOK
  <2> QED BY <1>5, <2>1, <2>2, ForgetStep DEF Deliver
<1>6. CASE Raise
  <2>1. readiness = None
    BY <1>1, <1>6 DEF Raise, TypeOK
  <2> QED BY <1>6, <2>1, ForgetStep DEF Raise
<1>7. CASE Assess
  BY <1>7, AssessStep
<1>8. CASE UNCHANGED vars
  BY <1>8 DEF vars, chatVars, Inductive, ChatIsOrderly, TypeOK, FinalizeIsFinal, LoopGuardIdle,
              Routed, Judged
<1> QED BY <1>2, <1>3, <1>4, <1>5, <1>6, <1>7, <1>8 DEF Next, Chat

LEMMA SpecInductive == Spec => []Inductive
BY InitInductive, StepInductive, PTL DEF Spec

-----------------------------------------------------------------------------
(* The verdict.                                                             *)

\* What a run may be called, it is called for these reasons.
LEMMA VerdictFacts ==
  ASSUME NEW s, NEW f
  PROVE  /\ Assessed(s, f).usable = Usable(s, f)
         /\ Assessed(s, f).discovery = (~ Usable(s, f) /\ Discovery(s, f))
         /\ Assessed(s, f).weak = (EvidenceHealth(f, Acceptance(s, f)) = "low")
         /\ Assessed(s, f).public = ("public" \in Blockers(f))
         /\ Assessed(s, f).internal = ("internal" \in Blockers(f))
         /\ Assessed(s, f).usable \/ Assessed(s, f).discovery =>
              /\ s.summary # "incomplete" /\ Acceptance(s, f) # "rejected"
         /\ Assessed(s, f).usable =>
              /\ Blockers(f) = {} /\ EvidenceHealth(f, Acceptance(s, f)) # "low"
         /\ Assessed(s, f).discovery => Blockers(f) = {"internal"}
<1>1. /\ Usable(s, f) => /\ Actionable(s, Acceptance(s, f), f) /\ Blockers(f) = {}
                         /\ EvidenceHealth(f, Acceptance(s, f)) # "low"
      /\ Discovery(s, f) => Actionable(s, Acceptance(s, f), f) /\ Blockers(f) = {"internal"}
  BY DEF Usable, Discovery
<1> QED BY <1>1 DEF Assessed, Actionable

LEMMA VerdictIsRecord ==
  ASSUME NEW s, NEW f
  PROVE  Assessed(s, f) \in [usable : BOOLEAN, discovery : BOOLEAN, weak : BOOLEAN,
                             public : BOOLEAN, internal : BOOLEAN]
<1>1. Usable(s, f) \in BOOLEAN
  BY DEF Usable
<1>2. (~ Usable(s, f) /\ Discovery(s, f)) \in BOOLEAN
  OBVIOUS
<1> QED BY <1>1, <1>2 DEF Assessed

\* Three degraded tasks at most count as usable ones.
LEMMA DegradedAlone ==
  ASSUME NEW f \in Finding, f.evidence.accepted = 0, NEW decision, decision # "accepted"
  PROVE  EvidenceHealth(f, decision) = "low"
<1>1. f.evidence \in EvidenceFacts
  BY DEF Finding
<1>2. f.evidence.degraded \in Nat
  BY <1>1 DEF EvidenceFacts
<1> DEFINE degraded == f.evidence.degraded + SynthesisTasks
           usable == 0 + IF degraded < 3 THEN degraded ELSE 3
<1>3. usable \in Nat /\ usable <= 3
  BY <1>2 DEF SynthesisTasks
<1>4. EvidenceHealth(f, decision) =
        IF usable >= 8 /\ f.evidence.external >= 2 /\ ~ f.evidence.unresolved THEN "high"
        ELSE IF (usable >= 5 /\ f.evidence.external >= 1) \/ (usable >= 4 /\ f.evidence.packets >= 5)
        THEN "medium" ELSE "low"
  BY DEF EvidenceHealth
<1> HIDE DEF usable
<1>5. ~ (usable >= 8) /\ ~ (usable >= 5) /\ ~ (usable >= 4)
  BY <1>3
<1> QED BY <1>4, <1>5

LEMMA JudgedVerdict == Inductive => VerdictIsEarned /\ FailuresBlock
<1> SUFFICES ASSUME Inductive, readiness # None PROVE VerdictIsEarned /\ FailuresBlock
  BY DEF VerdictIsEarned, FailuresBlock, ReadinessAsAssumed, ReadyOnAdmittedCompany,
         ReadyEvidenceIsEarned, IncompleteIsNeverReady, FailedGateBlocks
<1> DEFINE s == synthesis
           f == finding
<1>1. /\ s \in Returned /\ f \in Findings /\ f \in Finding /\ Consistent(f)
      /\ readiness = Assessed(s, f)
  BY FindingsAssumption DEF Inductive, ChatIsOrderly, TypeOK, Judged
<1>2. f.packages \in [Researching -> Admitted] /\ f.named \in SUBSET Researching
  BY <1>1 DEF Finding
<1>3. \A d \in Researching : f.packages[d].gate \in {"passed", "absent", "public", "internal"}
  BY <1>2 DEF Admitted
<1> HIDE DEF s, f
<1>4. /\ readiness.usable = Usable(s, f)
      /\ readiness.discovery = (~ Usable(s, f) /\ Discovery(s, f))
      /\ readiness.weak = (EvidenceHealth(f, Acceptance(s, f)) = "low")
      /\ readiness.public = ("public" \in Blockers(f))
      /\ readiness.internal = ("internal" \in Blockers(f))
      /\ readiness.usable \/ readiness.discovery =>
           /\ s.summary # "incomplete" /\ Acceptance(s, f) # "rejected"
      /\ readiness.usable => /\ Blockers(f) = {}
                             /\ EvidenceHealth(f, Acceptance(s, f)) # "low"
      /\ readiness.discovery => Blockers(f) = {"internal"}
  BY <1>1, VerdictFacts
<1>5. ReadinessAsAssumed
  <2>1. readiness \in [usable : BOOLEAN, discovery : BOOLEAN, weak : BOOLEAN,
                       public : BOOLEAN, internal : BOOLEAN]
    BY <1>1, VerdictIsRecord
  <2>2. readiness.usable =>
          ~ (readiness.discovery \/ readiness.weak \/ readiness.public \/ readiness.internal)
    BY <1>4
  <2>3. readiness.discovery => readiness.internal /\ ~ readiness.public
    BY <1>4
  <2> QED BY <2>1, <2>2, <2>3 DEF ReadinessAsAssumed, Readiness
<1>6. ReadyOnAdmittedCompany
  <2> SUFFICES ASSUME readiness.usable \/ readiness.discovery
               PROVE  f.packages["Company"].decision # "rejected" /\ "Company" \in f.named
    BY DEF ReadyOnAdmittedCompany, f
  <2>1. "Company" \in f.named
    BY <1>4 DEF Acceptance
  <2> QED BY <1>1, <2>1 DEF Consistent
<1>7. ReadyEvidenceIsEarned
  <2> SUFFICES ASSUME readiness.usable, ~ (f.evidence.accepted > 0)
               PROVE  Acceptance(s, f) = "accepted"
    BY DEF ReadyEvidenceIsEarned, s, f
  <2>1. f.evidence.accepted = 0
    BY <1>1 DEF Finding, EvidenceFacts
  <2> QED BY <1>1, <1>4, <2>1, DegradedAlone
<1>8. IncompleteIsNeverReady
  <2>1. s.summary # "incomplete" => s.mode = "normal"
    BY <1>1 DEF Returned
  <2> QED BY <1>4, <2>1 DEF IncompleteIsNeverReady, s, f
<1>9. FailedGateBlocks
  <2> SUFFICES ASSUME NEW d \in Researching
               PROVE  /\ readiness.usable => f.packages[d].gate \in {"passed", "absent"}
                      /\ readiness.discovery => f.packages[d].gate # "public"
    BY DEF FailedGateBlocks, f
  <2>1. f.packages[d].gate \in {"public", "internal"} => f.packages[d].gate \in Blockers(f)
    BY DEF Blockers
  <2> QED BY <1>3, <1>4, <2>1
<1> QED BY <1>5, <1>6, <1>7, <1>8, <1>9 DEF VerdictIsEarned, FailuresBlock

-----------------------------------------------------------------------------
\* The chat keeps its turn order, whoever its members are and however long it
\* is: whatever happens in it is typed, nobody speaks after finalize_synthesis
\* (the executor's answer to it carries TERMINATE), and no member comes to a
\* second text in a row (speaker_selector.py).
THEOREM ChatOrderly == Spec => []ChatIsOrderly
<1>1. Inductive => ChatIsOrderly
  BY DEF Inductive
<1> QED BY <1>1, SpecInductive, PTL

\* A verdict of assess_research_readiness is one the rest of the run relies on,
\* and a run is ready only on a company with a name, in a section that was let
\* through, and on more than degraded tasks, for any first round.
THEOREM VerdictEarned == Spec => []VerdictIsEarned
BY SpecInductive, JudgedVerdict, PTL

\* No score outweighs a chat that was not finished, a synthesis that was rejected
\* or a policy gate that failed (assess_research_readiness), for any first round.
THEOREM FailureBlocks == Spec => []FailuresBlock
BY SpecInductive, JudgedVerdict, PTL

-----------------------------------------------------------------------------

(* Induction, and what Extended and Cut return.                             *)

\* A set of numbers with 0 and every successor has them all.
LEMMA SetInduction ==
  ASSUME NEW S \in SUBSET Nat, 0 \in S, \A n \in S : n + 1 \in S
  PROVE  S = Nat
<1> DEFINE R == OpToRel(<, Nat)
           T == Nat \ S
<1>1. IsWellFoundedOn(R, Nat)
  BY NatLessThanWellFounded
<1>2. \A x, y \in Nat : <<y, x>> \in R <=> y < x
  BY DEF OpToRel
<1> HIDE DEF R
<1>3. SUFFICES ASSUME T # {} PROVE FALSE
  OBVIOUS
<1>4. T \subseteq Nat
  OBVIOUS
<1>5. PICK x \in T : \A y \in T : ~ (<<y, x>> \in R)
  <2> HIDE DEF T
  <2> QED BY <1>1, <1>3, <1>4, WFMin
<1>6. x # 0 /\ x - 1 \in Nat /\ x - 1 < x
  BY <1>5
<1>7. x - 1 \in S
  BY <1>2, <1>5, <1>6
<1> QED BY <1>5, <1>6, <1>7

\* s, and u if s does not have it.
With(s, u) == IF Contains(s, u) THEN s ELSE Append(s, u)

\* e[n] is s with the first n elements of t.
Steps(e, s, t, n) ==
  /\ e[0] = s
  /\ \A i \in 1 .. n : e[i] = With(e[i - 1], t[i])

\* The steps of the recursion exist for every list t.
LEMMA StepsExist ==
  ASSUME NEW S, NEW s \in Seq(S), NEW t \in Seq(S)
  PROVE  \E e \in [0 .. Len(t) -> Seq(S)] : Steps(e, s, t, Len(t))
<1> DEFINE N == {n \in Nat : n <= Len(t) => \E e \in [0 .. n -> Seq(S)] : Steps(e, s, t, n)}
<1>1. 0 \in N
  <2>1. [i \in 0 .. 0 |-> s] \in [0 .. 0 -> Seq(S)]
    OBVIOUS
  <2>2. Steps([i \in 0 .. 0 |-> s], s, t, 0)
    BY DEF Steps
  <2> QED BY <2>1, <2>2
<1>2. ASSUME NEW n \in N, n + 1 <= Len(t)
      PROVE  \E e \in [0 .. n + 1 -> Seq(S)] : Steps(e, s, t, n + 1)
  <2>1. PICK e \in [0 .. n -> Seq(S)] : Steps(e, s, t, n)
    BY <1>2
  <2> DEFINE g == [i \in 0 .. n + 1 |-> IF i = n + 1 THEN With(e[n], t[n + 1]) ELSE e[i]]
  <2>2. e[n] \in Seq(S) /\ t[n + 1] \in S
    BY <1>2
  <2>3. With(e[n], t[n + 1]) \in Seq(S)
    BY <2>2 DEF With
  <2>4. g \in [0 .. n + 1 -> Seq(S)]
    BY <2>3
  <2>5. g[0] = s
    BY <2>1 DEF Steps
  <2>6. ASSUME NEW i \in 1 .. n + 1 PROVE g[i] = With(g[i - 1], t[i])
    <3>1. CASE i = n + 1
      BY <3>1
    <3>2. CASE i # n + 1
      <4>1. i \in 1 .. n /\ i - 1 \in 0 .. n
        BY <3>2
      <4>2. e[i] = With(e[i - 1], t[i])
        BY <2>1, <4>1 DEF Steps
      <4> QED BY <4>1, <4>2
    <3> QED BY <3>1, <3>2
  <2>7. Steps(g, s, t, n + 1)
    BY <2>5, <2>6 DEF Steps
  <2> QED BY <2>4, <2>7
<1>3. N = Nat
  <2>1. ASSUME NEW n \in N PROVE n + 1 \in N
    <3>1. n \in Nat
      OBVIOUS
    <3>2. CASE n + 1 <= Len(t)
      <4>1. \E e \in [0 .. n + 1 -> Seq(S)] : Steps(e, s, t, n + 1)
        BY <1>2, <3>2
      <4>2. n + 1 \in Nat
        BY <3>1
      <4> QED BY <4>1, <4>2
    <3>3. CASE ~ (n + 1 <= Len(t))
      BY <3>1, <3>3
    <3> QED BY <3>2, <3>3
  <2>2. N \in SUBSET Nat
    OBVIOUS
  <2> HIDE DEF N
  <2> QED BY <1>1, <2>1, <2>2, SetInduction
<1>4. Len(t) \in N
  BY <1>3
<1> QED BY <1>4

\* Extended takes them.
LEMMA ExtendedSteps ==
  ASSUME NEW S, NEW s \in Seq(S), NEW t \in Seq(S)
  PROVE  \E e \in [0 .. Len(t) -> Seq(S)] :
           Steps(e, s, t, Len(t)) /\ Extended(s, t) = e[Len(t)]
<1>1. PICK e \in [0 .. Len(t) -> Seq(S)] : Steps(e, s, t, Len(t))
  BY StepsExist
<1> DEFINE Unfolded(g) == [n \in 0 .. Len(t) |->
                            IF n = 0 THEN s
                            ELSE IF Contains(g[n - 1], t[n]) THEN g[n - 1]
                            ELSE Append(g[n - 1], t[n])]
           f == CHOOSE g : g = Unfolded(g)
<1>2. e = Unfolded(e)
  <2>1. ASSUME NEW n \in 0 .. Len(t) PROVE e[n] = Unfolded(e)[n]
    <3>1. CASE n = 0
      BY <1>1, <3>1 DEF Steps
    <3>2. CASE n # 0
      <4>1. n \in 1 .. Len(t)
        BY <3>2
      <4>2. e[n] = With(e[n - 1], t[n])
        BY <1>1, <4>1 DEF Steps
      <4> QED BY <3>2, <4>2 DEF With
    <3> QED BY <3>1, <3>2
  <2>2. DOMAIN e = 0 .. Len(t) /\ e = [n \in 0 .. Len(t) |-> e[n]]
    OBVIOUS
  <2> QED BY <2>1, <2>2
<1>3. f = Unfolded(f)
  <2> HIDE DEF Unfolded
  <2> QED BY <1>2
<1>4. Extended(s, t) = f[Len(t)]
  BY DEF Extended
<1> DEFINE N == {n \in Nat : n <= Len(t) => f[n] = e[n]}
<1> HIDE DEF f
<1>5. 0 \in N
  BY <1>2, <1>3
<1>6. ASSUME NEW n \in N PROVE n + 1 \in N
  <2> SUFFICES ASSUME n + 1 <= Len(t) PROVE f[n + 1] = e[n + 1]
    OBVIOUS
  <2>1. f[n] = e[n] /\ n + 1 \in 0 .. Len(t) /\ n + 1 # 0 /\ (n + 1) - 1 = n
    OBVIOUS
  <2>2. ASSUME NEW g PROVE Unfolded(g)[n + 1] = With(g[n], t[n + 1])
    BY <2>1 DEF With
  <2>3. Unfolded(f)[n + 1] = Unfolded(e)[n + 1]
    BY <2>1, <2>2
  <2> HIDE DEF Unfolded
  <2> QED BY <1>2, <1>3, <2>3
<1>7. N = Nat
  <2>1. N \in SUBSET Nat
    OBVIOUS
  <2> HIDE DEF N
  <2> QED BY <1>5, <1>6, <2>1, SetInduction
<1>8. f[Len(t)] = e[Len(t)]
  <2>1. Len(t) \in N
    BY <1>7
  <2> QED BY <2>1
<1> QED BY <1>1, <1>4, <1>8

\* What t has over s are further elements.
Continues(s, t) == Len(s) <= Len(t) /\ \A i \in 1 .. Len(s) : t[i] = s[i]

LEMMA ContinuesIsPrefix ==
  ASSUME NEW S, NEW s \in Seq(S), NEW t \in Seq(S), Continues(s, t)
  PROVE  IsPrefix(s, t)
<1>1. Len(s) \in Nat /\ Len(t) \in Nat /\ Len(s) <= Len(t)
  BY LenProperties DEF Continues
<1>2. SubSeq(s, 1, Len(s)) = s
  BY SubSeqFull
<1>3. \A i \in 1 .. Len(s) : t[i] \in S
  BY <1>1, ElementOfSeq
<1>4. /\ SubSeq(t, 1, Len(s)) \in Seq(S)
      /\ Len(SubSeq(t, 1, Len(s))) = Len(s)
      /\ \A i \in 1 .. Len(s) : SubSeq(t, 1, Len(s))[i] = t[i]
  BY <1>1, <1>3, SubSeqProperties
<1>5. SubSeq(t, 1, Len(s)) = s
  BY <1>4, SeqEqual DEF Continues
<1> QED BY <1>1, <1>2, <1>5 DEF IsPrefix

\* One step keeps s, adds u, and repeats nothing.
LEMMA WithFacts ==
  ASSUME NEW S, NEW s \in Seq(S), NEW u \in S
  PROVE  /\ With(s, u) \in Seq(S)
         /\ Continues(s, With(s, u))
         /\ ToSet(With(s, u)) = ToSet(s) \cup {u}
         /\ IsInjective(s) => IsInjective(With(s, u))
<1>1. Len(s) \in Nat /\ DOMAIN s = 1 .. Len(s)
  BY LenProperties
<1>2. CASE Contains(s, u)
  <2>1. With(s, u) = s
    BY <1>2 DEF With
  <2>2. u \in ToSet(s)
    BY <1>1, <1>2 DEF Contains, ToSet
  <2> QED BY <1>1, <2>1, <2>2 DEF Continues
<1>3. CASE ~ Contains(s, u)
  <2>1. With(s, u) = Append(s, u)
    BY <1>3 DEF With
  <2> DEFINE a == Append(s, u)
  <2>2. /\ a \in Seq(S) /\ Len(a) = Len(s) + 1
        /\ \A i \in 1 .. Len(s) : a[i] = s[i]
        /\ a[Len(s) + 1] = u
    BY AppendProperties
  <2>3. DOMAIN a = 1 .. Len(s) + 1
    BY <2>2, LenProperties
  <2> HIDE DEF a
  <2>4. Continues(s, a)
    BY <1>1, <2>2 DEF Continues
  <2>5. ToSet(a) = ToSet(s) \cup {u}
    BY <1>1, <2>2, <2>3 DEF ToSet
  <2>6. ASSUME IsInjective(s) PROVE IsInjective(a)
    <3>1. SUFFICES ASSUME NEW i \in 1 .. Len(s) + 1, NEW j \in 1 .. Len(s) + 1, a[i] = a[j]
                   PROVE  i = j
      BY <2>3 DEF IsInjective
    <3>2. \A k \in 1 .. Len(s) : a[k] # u
      BY <1>1, <1>3, <2>2 DEF Contains
    <3>3. \A k, l \in 1 .. Len(s) : s[k] = s[l] => k = l
      BY <1>1, <2>6 DEF IsInjective
    <3> QED BY <1>1, <2>2, <3>1, <3>2, <3>3
  <2> QED BY <2>1, <2>2, <2>4, <2>5, <2>6 DEF a
<1> QED BY <1>2, <1>3

LEMMA ContinuesTransitive ==
  ASSUME NEW S, NEW s \in Seq(S), NEW t \in Seq(S), NEW u \in Seq(S),
         Continues(s, t), Continues(t, u)
  PROVE  Continues(s, u)
<1>1. Len(s) \in Nat /\ Len(t) \in Nat /\ Len(u) \in Nat
  BY LenProperties
<1> QED BY <1>1 DEF Continues

\* What Extended returns: nothing is lost, moved or repeated.
LEMMA ExtendedFacts ==
  ASSUME NEW S, NEW s \in Seq(S), NEW t \in Seq(S)
  PROVE  /\ Extended(s, t) \in Seq(S)
         /\ Continues(s, Extended(s, t))
         /\ ToSet(Extended(s, t)) = ToSet(s) \cup ToSet(t)
         /\ IsInjective(s) => IsInjective(Extended(s, t))
<1>1. PICK e \in [0 .. Len(t) -> Seq(S)] :
        Steps(e, s, t, Len(t)) /\ Extended(s, t) = e[Len(t)]
  BY ExtendedSteps
<1>2. Len(t) \in Nat /\ DOMAIN t = 1 .. Len(t) /\ Len(s) \in Nat
  BY LenProperties
<1> DEFINE Taken(n) == /\ Continues(s, e[n])
                       /\ ToSet(e[n]) = ToSet(s) \cup {t[i] : i \in 1 .. n}
                       /\ IsInjective(s) => IsInjective(e[n])
           N == {n \in Nat : n <= Len(t) => Taken(n)}
<1>3. e[0] = s
  BY <1>1 DEF Steps
<1>4. Taken(0)
  <2>1. Continues(s, s)
    BY <1>2 DEF Continues
  <2>2. {t[i] : i \in 1 .. 0} = {}
    OBVIOUS
  <2> QED BY <1>3, <2>1, <2>2
<1>5. ASSUME NEW n \in Nat, n + 1 <= Len(t), Taken(n) PROVE Taken(n + 1)
  <2>1. n \in 0 .. Len(t) /\ n + 1 \in 0 .. Len(t) /\ n + 1 \in 1 .. Len(t)
    BY <1>2, <1>5
  <2>2. e[n] \in Seq(S) /\ e[n + 1] \in Seq(S) /\ t[n + 1] \in S
    BY <2>1, ElementOfSeq
  <2>3. e[n + 1] = With(e[n], t[n + 1])
    <3>1. (n + 1) - 1 = n
      OBVIOUS
    <3>2. e[n + 1] = With(e[(n + 1) - 1], t[n + 1])
      BY <1>1, <2>1 DEF Steps
    <3> QED BY <3>1, <3>2
  <2>4. /\ Continues(e[n], e[n + 1])
        /\ ToSet(e[n + 1]) = ToSet(e[n]) \cup {t[n + 1]}
        /\ IsInjective(e[n]) => IsInjective(e[n + 1])
    <3> DEFINE d == e[n]
               u == t[n + 1]
    <3>1. d \in Seq(S) /\ u \in S
      BY <2>2
    <3> HIDE DEF d, u
    <3>2. /\ Continues(d, With(d, u))
          /\ ToSet(With(d, u)) = ToSet(d) \cup {u}
          /\ IsInjective(d) => IsInjective(With(d, u))
      BY <3>1, WithFacts
    <3> QED BY <2>3, <3>2 DEF d, u
  <2>5. Continues(s, e[n + 1])
    BY <1>5, <2>2, <2>4, ContinuesTransitive
  <2>6. {t[i] : i \in 1 .. n + 1} = {t[i] : i \in 1 .. n} \cup {t[n + 1]}
    <3>1. \A i : i \in 1 .. n + 1 <=> i \in 1 .. n \/ i = n + 1
      OBVIOUS
    <3> QED BY <3>1
  <2>7. ToSet(e[n + 1]) = ToSet(s) \cup {t[i] : i \in 1 .. n + 1}
    BY <1>5, <2>4, <2>6
  <2> QED BY <1>5, <2>4, <2>5, <2>7
<1>6. N = Nat
  <2>1. ASSUME NEW n \in N PROVE n + 1 \in N
    <3>1. n \in Nat /\ n + 1 \in Nat /\ (n <= Len(t) => Taken(n))
      OBVIOUS
    <3> HIDE DEF Taken
    <3>2. n + 1 <= Len(t) => Taken(n + 1)
      BY <1>2, <1>5, <3>1
    <3> QED BY <3>1, <3>2
  <2>2. 0 \in N
    <3> HIDE DEF Taken
    <3> QED BY <1>4
  <2>3. N \in SUBSET Nat
    OBVIOUS
  <2> HIDE DEF N
  <2> QED BY <2>1, <2>2, <2>3, SetInduction
<1>7. Taken(Len(t))
  <2>1. Len(t) \in N
    BY <1>2, <1>6
  <2> HIDE DEF Taken
  <2> QED BY <1>2, <2>1
<1>8. ToSet(t) = {t[i] : i \in 1 .. Len(t)}
  BY <1>2 DEF ToSet
<1>9. Extended(s, t) \in Seq(S)
  BY <1>1, <1>2
<1> QED BY <1>1, <1>7, <1>8, <1>9

LEMMA MinFacts ==
  ASSUME NEW m \in Nat, NEW n \in Nat
  PROVE  Min({m, n}) = IF m <= n THEN m ELSE n
<1>1. \E x \in {m, n} : \A y \in {m, n} : x =< y
  OBVIOUS
<1>2. Min({m, n}) \in {m, n} /\ \A y \in {m, n} : Min({m, n}) =< y
  BY <1>1 DEF Min
<1> QED BY <1>2

\* What Cut returns: the head of the sequence, all of it when it is short enough.
LEMMA CutFacts ==
  ASSUME NEW S, NEW s \in Seq(S), NEW n \in Nat
  PROVE  /\ Cut(s, n) \in Seq(S)
         /\ Len(Cut(s, n)) = IF n <= Len(s) THEN n ELSE Len(s)
         /\ Len(Cut(s, n)) <= n
         /\ Continues(Cut(s, n), s)
         /\ ToSet(Cut(s, n)) \subseteq ToSet(s)
         /\ IsInjective(s) => IsInjective(Cut(s, n))
<1> DEFINE m == IF n <= Len(s) THEN n ELSE Len(s)
           c == Cut(s, n)
<1>1. Len(s) \in Nat /\ DOMAIN s = 1 .. Len(s) /\ m \in Nat /\ m <= Len(s) /\ m <= n
  BY LenProperties
<1>2. c = SubSeq(s, 1, m)
  BY <1>1, MinFacts DEF Cut
<1> HIDE DEF c, m
<1>3. \A i \in 1 .. m : s[i] \in S
  BY <1>1, ElementOfSeq
<1>4. c \in Seq(S) /\ Len(c) = m /\ \A i \in 1 .. m : c[i] = s[i]
  BY <1>1, <1>2, <1>3, SubSeqProperties
<1>5. DOMAIN c = 1 .. m
  BY <1>4, LenProperties
<1>6. Continues(c, s)
  BY <1>1, <1>4 DEF Continues
<1>7. ToSet(c) \subseteq ToSet(s)
  BY <1>1, <1>4, <1>5 DEF ToSet
<1>8. IsInjective(s) => IsInjective(c)
  BY <1>1, <1>4, <1>5 DEF IsInjective
<1> QED BY <1>1, <1>4, <1>6, <1>7, <1>8 DEF c, m

\* A sequence that fits is kept by the cut of what continues it.
LEMMA CutKeeps ==
  ASSUME NEW S, NEW s \in Seq(S), NEW t \in Seq(S), NEW n \in Nat,
         Continues(s, t), Len(s) <= n
  PROVE  Continues(s, Cut(t, n))
<1>1. Len(s) \in Nat /\ Len(t) \in Nat
  BY LenProperties
<1> QED BY <1>1, CutFacts DEF Continues

LEMMA ContinuesElements ==
  ASSUME NEW S, NEW s \in Seq(S), NEW t \in Seq(S), Continues(s, t)
  PROVE  ToSet(s) \subseteq ToSet(t)
<1>1. Len(s) \in Nat /\ Len(t) \in Nat /\ DOMAIN s = 1 .. Len(s) /\ DOMAIN t = 1 .. Len(t)
  BY LenProperties
<1> QED BY <1>1 DEF Continues, ToSet

LEMMA SeqOver ==
  ASSUME NEW S, NEW T, NEW s \in Seq(S), ToSet(s) \subseteq T
  PROVE  s \in Seq(T)
<1>1. Len(s) \in Nat /\ DOMAIN s = 1 .. Len(s)
  BY LenProperties
<1>2. s \in [1 .. Len(s) -> T]
  BY <1>1, LenProperties DEF ToSet
<1> QED BY <1>1, <1>2, SeqDef

-----------------------------------------------------------------------------
(* The research worker.                                                     *)

Sources == Urls \cup Invented \cup ToSet(BriefSources)

\* The sources a section may have.
SourceList(s) == s \in Seq(Sources) /\ IsInjective(s) /\ Len(s) <= MaxSources

\* What SourcesStand says of a report that is to replace the section.
Stands(sources, later) ==
  /\ IsPrefix(sources, later)
  /\ \A u \in ToSet(later) \ ToSet(sources) :
       u \in Invented =>
         ToSet(results) \cup ToSet(BriefSources) \subseteq ToSet(later)

\* Every variable outside a synthesis and a report has its type.
Typed ==
  /\ at \in {"idle", "search", "synthesis", "merge", "report"}
  /\ task \in Tasks \cup {NoTask} /\ (at # "idle" => task \in Tasks)
  /\ pending \in Seq(Queries) /\ results \in Seq(Urls)
  /\ task \in Tasks => Len(results) <= MaxResults[task]
  /\ DOMAIN cache \subseteq Queries /\ \A q \in DOMAIN cache : cache[q] \in Seq(Urls)
  /\ requests \in [Queries -> Nat] /\ executions \in 0 .. CallBound
  /\ elsewhere \in Queries \cup Urls \cup {Nothing}
  /\ pages \in [Urls -> {"unseen", "text", "none"}] /\ fetches \in [Urls -> Nat]
  /\ payload.fields \in [Fields -> {"default", "value"}] /\ SourceList(payload.sources)
  /\ refined \subseteq Tasks

\* What is in a cache was asked for; what the other worker asks for was in none when it looked.
Traffic ==
  /\ \A q \in Queries :
       requests[q] <= IF q \notin DOMAIN cache THEN 0 ELSE IF elsewhere = q THEN 2 ELSE 4
  /\ \A u \in Urls :
       fetches[u] <= IF pages[u] = "unseen" THEN 0 ELSE IF elsewhere = u THEN 1 ELSE 2

\* A synthesis, with the question that its fallback note asks.
Synthesized ==
  IF at \in {"merge", "report"}
    THEN /\ answer.update \in ModelUpdates /\ answer.cited \in Seq(Invented)
         /\ note \in {NoNote, "llm_failed"}
         /\ note # NoNote => note \in answer.questions
    ELSE answer = Nil /\ note = NoNote

\* A report may take the place of the payload.
Reported ==
  IF at = "report"
    THEN /\ report.payload.fields \in [Fields -> {"default", "value"}]
         /\ SourceList(report.payload.sources)
         /\ Stands(payload.sources, report.payload.sources)
         /\ ValidFieldsSurvive /\ QuestionsSurvive
    ELSE report = Nil

WorkerInductive == Typed /\ Traffic /\ Synthesized /\ Reported

\* _merge_sources, for any section, task and citations.
LEMMA MergedSourcesFacts ==
  ASSUME NEW s, SourceList(s), results \in Seq(Urls),
         NEW cited \in Seq(Invented)
  PROVE  /\ SourceList(MergedSources(s, cited))
         /\ Stands(s, MergedSources(s, cited))
<1> DEFINE b == Extended(s, BriefSources)
           y == Extended(b, results)
           x == Extended(y, cited)
           m == Cut(x, MaxSources)
<1>1. s \in Seq(Sources) /\ IsInjective(s) /\ Len(s) <= MaxSources
  BY DEF SourceList
<1>2. BriefSources \in Seq(Sources) /\ results \in Seq(Sources) /\ cited \in Seq(Sources)
  <2>1. BriefSources \in Seq(STRING) /\ ToSet(BriefSources) \subseteq Sources
    BY WorkerAssumption DEF Sources
  <2> QED BY <2>1, SeqOver, SeqMonotonic DEF Sources
<1>3. /\ b \in Seq(Sources) /\ Continues(s, b) /\ IsInjective(b)
      /\ ToSet(b) = ToSet(s) \cup ToSet(BriefSources)
  BY <1>1, <1>2, ExtendedFacts
<1> HIDE DEF b
<1>4. /\ y \in Seq(Sources) /\ Continues(b, y) /\ IsInjective(y)
      /\ ToSet(y) = ToSet(b) \cup ToSet(results)
  BY <1>2, <1>3, ExtendedFacts
<1> HIDE DEF y
<1>5. x \in Seq(Sources) /\ Continues(y, x) /\ IsInjective(x)
  BY <1>2, <1>4, ExtendedFacts
<1> HIDE DEF x
<1>6. MaxSources \in Nat
  BY WorkerAssumption
<1>7. /\ m \in Seq(Sources) /\ Len(m) <= MaxSources /\ IsInjective(m)
      /\ Continues(m, x) /\ Len(m) = IF MaxSources <= Len(x) THEN MaxSources ELSE Len(x)
  BY <1>5, <1>6, CutFacts
<1>8. Continues(s, x)
  BY <1>1, <1>3, <1>4, <1>5, ContinuesTransitive
<1>9. Continues(s, m)
  BY <1>1, <1>5, <1>6, <1>8, CutKeeps
<1> HIDE DEF m
<1>10. IsPrefix(s, m)
  BY <1>1, <1>7, <1>9, ContinuesIsPrefix
<1>11. ASSUME NEW u \in ToSet(m) \ ToSet(s), u \in Invented
       PROVE  ToSet(results) \cup ToSet(BriefSources) \subseteq ToSet(m)
  <2>1. Len(m) \in Nat /\ Len(y) \in Nat /\ Len(x) \in Nat
        /\ DOMAIN m = 1 .. Len(m) /\ DOMAIN y = 1 .. Len(y)
    BY <1>4, <1>5, <1>7, LenProperties
  <2>2. PICK i \in 1 .. Len(m) : m[i] = u
    BY <2>1 DEF ToSet
  <2>3. u \notin ToSet(y)
    <3>1. u \notin Urls \cup ToSet(BriefSources)
      BY <1>11, WorkerAssumption
    <3>2. ToSet(results) \subseteq Urls
      <4>1. DOMAIN results = 1 .. Len(results) /\ \A j \in 1 .. Len(results) : results[j] \in Urls
        BY LenProperties, ElementOfSeq
      <4> QED BY <4>1 DEF ToSet
    <3> QED BY <1>3, <1>4, <1>11, <3>1, <3>2
  <2>4. i > Len(y)
    <3>1. SUFFICES ASSUME i <= Len(y) PROVE FALSE
      BY <2>1
    <3>2. i \in 1 .. Len(y) /\ i \in 1 .. Len(m)
      BY <2>1, <3>1
    <3>3. x[i] = y[i] /\ x[i] = m[i]
      BY <1>5, <1>7, <3>2 DEF Continues
    <3>4. u \in ToSet(y)
      BY <2>1, <2>2, <3>2, <3>3 DEF ToSet
    <3> QED BY <2>3, <3>4
  <2>5. Continues(y, m)
    <3>1. Len(y) < Len(m)
      BY <2>1, <2>2, <2>4
    <3>2. ASSUME NEW j \in 1 .. Len(y) PROVE m[j] = y[j]
      <4>1. j \in 1 .. Len(m)
        BY <2>1, <3>1
      <4> QED BY <1>5, <1>7, <4>1 DEF Continues
    <3> QED BY <2>1, <3>1, <3>2 DEF Continues
  <2>6. ToSet(y) \subseteq ToSet(m)
    BY <1>4, <1>7, <2>5, ContinuesElements
  <2> QED BY <1>3, <1>4, <2>6
<1>12. m = MergedSources(s, cited)
  BY DEF m, x, y, b, MergedSources
<1> QED BY <1>7, <1>10, <1>11, <1>12 DEF SourceList, Stands

LEMMA QueryLists ==
  ASSUME NEW t \in Tasks
  PROVE  QueriesOf(t) \in Seq(Queries)
<1>1. BaseQueries[t] \in Seq(STRING) /\ RefinedQueries[t] \in Seq(STRING)
  BY WorkerAssumption
<1>2. /\ ToSet(BaseQueries[t]) \subseteq Queries
      /\ ToSet(RefinedQueries[t]) \subseteq Queries
  BY DEF Queries
<1>3. BaseQueries[t] \in Seq(Queries) /\ RefinedQueries[t] \in Seq(Queries)
  BY <1>1, <1>2, SeqOver
<1> QED BY <1>3 DEF QueriesOf

LEMMA BatchLists ==
  ASSUME NEW n \in Nat, NEW b \in Batches(n)
  PROVE  b \in Seq(Urls)
<1>1. PICK k \in 0 .. n : b \in [1 .. k -> Urls]
  BY DEF Batches
<1> QED BY <1>1, SeqDef

\* What a list of pages names.
LEMMA ListElements ==
  ASSUME NEW S, NEW s \in Seq(S)
  PROVE  ToSet(s) \subseteq S
<1>1. Len(s) \in Nat /\ DOMAIN s = 1 .. Len(s) /\ \A i \in 1 .. Len(s) : s[i] \in S
  BY LenProperties, ElementOfSeq
<1> QED BY <1>1 DEF ToSet

LEMMA Limits ==
  ASSUME NEW t \in Tasks
  PROVE  MaxQueries[t] \in Nat /\ MaxResults[t] \in Nat
BY WorkerAssumption

LEMMA WorkerInitInductive ==
  ASSUME WorkerInit
  PROVE  WorkerInductive
<1>1. Typed
  <2>1. SourceList(<<>>)
    <3>1. <<>> \in Seq(Sources) /\ Len(<<>>) = 0 /\ DOMAIN <<>> = {}
      BY EmptySeq
    <3> QED BY <3>1, WorkerAssumption DEF SourceList, IsInjective
  <2>2. DOMAIN cache = {}
    BY DEF WorkerInit
  <2>3. CallBound \in Nat
    BY WorkerAssumption
  <2>4. task \notin Tasks \/ 0 <= MaxResults[task]
    BY Limits
  <2>5. results = <<>> /\ pending = <<>> /\ Len(results) = 0
    BY EmptySeq DEF WorkerInit
  <2>6. pending \in Seq(Queries) /\ results \in Seq(Urls)
    BY <2>5, EmptySeq
  <2> QED BY <2>1, <2>2, <2>3, <2>4, <2>5, <2>6 DEF WorkerInit, Typed
<1>2. Traffic
  BY DEF WorkerInit, Traffic
<1> QED BY <1>1, <1>2 DEF WorkerInit, WorkerInductive, Synthesized, Reported

\* The lead's and the other worker's steps leave the call alone.
LEMMA RefineStep ==
  ASSUME WorkerInductive, NEW t \in Tasks, Refine(t)
  PROVE  WorkerInductive'
BY DEF WorkerInductive, Refine, callVars, workerVars, pageVars, Typed, Traffic, Synthesized,
       Reported, Stands, SourceList, ValidFieldsSurvive, QuestionsSurvive

LEMMA StartStep ==
  ASSUME WorkerInductive, NEW t \in Tasks, Start(t)
  PROVE  WorkerInductive'
<1>1. pending' \in Seq(Queries)
  BY QueryLists, Limits, CutFacts DEF Start
<1>2. results' = <<>> /\ results' \in Seq(Urls) /\ Len(results') = 0
  BY EmptySeq DEF Start
<1>3. 0 <= MaxResults[t]
  BY Limits
<1>4. executions' \in 0 .. CallBound
  BY WorkerAssumption DEF Start, WorkerInductive, Typed
<1>5. Typed'
  BY <1>1, <1>2, <1>3, <1>4 DEF WorkerInductive, Start, workerVars, pageVars, Typed, SourceList
<1>6. Traffic'
  BY DEF WorkerInductive, Start, workerVars, pageVars, Traffic
<1> QED BY <1>5, <1>6 DEF WorkerInductive, Start, Synthesized, Reported

LEMMA SearchStep ==
  ASSUME WorkerInductive, Search
  PROVE  WorkerInductive'
<1>1. pending # <<>> /\ pending \in Seq(Queries) /\ task \in Tasks /\ results \in Seq(Urls)
  BY DEF Search, SearchOver, WorkerInductive, Typed
<1> DEFINE q == Head(pending)
<1>2. q \in Queries /\ Tail(pending) \in Seq(Queries)
  BY <1>1, HeadTailProperties
<1>3. PICK a \in Answers(q) :
           /\ cache' = Kept(q, a.batch)
           /\ requests' = [requests EXCEPT ![q] = @ + a.sent]
           /\ results' = Cut(Extended(results, a.batch), MaxResults[task])
  BY DEF Search
<1> HIDE DEF q
<1>4. MaxResults[task] \in Nat
  BY <1>1, Limits
<1>5. a.batch \in Seq(Urls) /\ a.sent \in 0 .. 2 /\ (q \in DOMAIN cache => a.sent = 0)
  <2>1. CASE q \in DOMAIN cache
    <3>1. cache[q] \in Seq(Urls)
      BY <2>1 DEF WorkerInductive, Typed
    <3> QED BY <2>1, <3>1 DEF Answers
  <2>2. CASE q \notin DOMAIN cache
    <3>1. \A b \in Batches(MaxResults[task]) : b \in Seq(Urls)
      BY <1>4, BatchLists
    <3>2. <<>> \in Seq(Urls)
      BY EmptySeq
    <3>3. \/ \E b \in Batches(MaxResults[task]), n \in {1, 2} : a = [batch |-> b, sent |-> n]
          \/ a = [batch |-> <<>>, sent |-> 2]
      BY <2>2 DEF Answers
    <3>4. CASE a = [batch |-> <<>>, sent |-> 2]
      BY <2>2, <3>2, <3>4
    <3>5. CASE \E b \in Batches(MaxResults[task]), n \in {1, 2} :
                 a = [batch |-> b, sent |-> n]
      <4>1. PICK b \in Batches(MaxResults[task]), n \in {1, 2} :
              a = [batch |-> b, sent |-> n]
        BY <3>5
      <4>2. a.batch = b /\ a.sent = n
        BY <4>1
      <4>3. b \in Seq(Urls)
        BY <3>1
      <4> QED BY <2>2, <4>2, <4>3
    <3> QED BY <3>3, <3>4, <3>5
  <2> QED BY <2>1, <2>2
<1>6. results' \in Seq(Urls) /\ Len(results') <= MaxResults[task]
  <2>1. Extended(results, a.batch) \in Seq(Urls)
    BY <1>1, <1>5, ExtendedFacts
  <2> QED BY <1>3, <1>4, <2>1, CutFacts
<1>7. DOMAIN cache' = DOMAIN cache \cup {q} /\ \A x \in DOMAIN cache' : cache'[x] \in Seq(Urls)
  BY <1>3, <1>5 DEF Kept, WorkerInductive, Typed
<1>8. requests \in [Queries -> Nat] /\ requests' \in [Queries -> Nat]
      /\ requests'[q] = requests[q] + a.sent
      /\ \A x \in Queries \ {q} : requests'[x] = requests[x]
  BY <1>2, <1>3, <1>5 DEF WorkerInductive, Typed
<1>9. pending' = Tail(pending)
  BY DEF Search
<1>10. UNCHANGED <<at, task, excerpts, answer, note, report, pageVars, elsewhere,
                   leadVars>>
  BY DEF Search
<1>11. Typed'
  BY <1>2, <1>6, <1>7, <1>8, <1>9, <1>10 DEF WorkerInductive, Typed, pageVars, leadVars,
                                             SourceList
<1>12. Traffic'
  <2>1. \A u \in Urls :
          fetches'[u] <= IF pages'[u] = "unseen" THEN 0 ELSE IF elsewhere' = u THEN 1 ELSE 2
    BY <1>10 DEF WorkerInductive, Traffic, pageVars
  <2>2. ASSUME NEW x \in Queries
        PROVE  requests'[x] <= IF x \notin DOMAIN cache' THEN 0
                               ELSE IF elsewhere' = x THEN 2 ELSE 4
    <3>1. requests[x] <= IF x \notin DOMAIN cache THEN 0 ELSE IF elsewhere = x THEN 2 ELSE 4
      BY DEF WorkerInductive, Traffic
    <3>2. CASE x # q
      BY <1>7, <1>8, <1>10, <3>1, <3>2
    <3>3. CASE x = q
      BY <1>2, <1>5, <1>7, <1>8, <1>10, <3>1, <3>3
    <3> QED BY <3>2, <3>3
  <2> QED BY <2>1, <2>2 DEF Traffic
<1>13. at = "search"
  BY DEF Search
<1> QED BY <1>10, <1>11, <1>12, <1>13 DEF WorkerInductive, Synthesized, Reported

LEMMA FetchStep ==
  ASSUME WorkerInductive, FetchPages
  PROVE  WorkerInductive'
<1> DEFINE wanted == ToSet(Cut(results, MaxPages))
           unseen == {u \in wanted : pages[u] = "unseen"}
<1>1. wanted \subseteq Urls
  <2>1. Cut(results, MaxPages) \in Seq(Urls)
    BY CutFacts, WorkerAssumption DEF WorkerInductive, Typed
  <2> QED BY <2>1, ListElements
<1>2. PICK got \in [unseen -> {"text", "none"}] :
           pages' = [u \in Urls |-> IF u \in unseen THEN got[u] ELSE pages[u]]
  BY DEF FetchPages
<1>3. fetches' = [u \in Urls |-> fetches[u] + IF u \in unseen THEN 1 ELSE 0]
  BY DEF FetchPages
<1> HIDE DEF wanted
<1>4. \A u \in Urls : u \in unseen => pages[u] = "unseen" /\ pages'[u] \in {"text", "none"}
  BY <1>2
<1>5. \A u \in Urls : u \notin unseen => pages'[u] = pages[u]
  BY <1>2
<1> HIDE DEF unseen
<1>6. UNCHANGED <<task, results, answer, note, report, cache, requests, elsewhere, leadVars>>
      /\ at = "search" /\ at' = "synthesis" /\ pending' = <<>>
  BY DEF FetchPages
<1>7. pages' \in [Urls -> {"unseen", "text", "none"}] /\ fetches' \in [Urls -> Nat]
  <2>1. pages' = [u \in Urls |-> pages'[u]]
    BY <1>2
  <2> QED BY <1>3, <1>4, <1>5, <2>1 DEF WorkerInductive, Typed
<1>8. pending' \in Seq(Queries)
  BY <1>6, EmptySeq
<1>9. Typed'
  BY <1>6, <1>7, <1>8 DEF WorkerInductive, Typed, leadVars, SourceList
<1>10. Traffic'
  <2>1. ASSUME NEW u \in Urls
        PROVE  fetches'[u] <= IF pages'[u] = "unseen" THEN 0 ELSE IF elsewhere' = u THEN 1 ELSE 2
    <3>1. /\ fetches[u] \in Nat
          /\ fetches[u] <= IF pages[u] = "unseen" THEN 0 ELSE IF elsewhere = u THEN 1 ELSE 2
      BY DEF WorkerInductive, Traffic, Typed
    <3>2. CASE u \in unseen
      BY <1>3, <1>4, <3>1, <3>2
    <3>3. CASE u \notin unseen
      BY <1>3, <1>5, <1>6, <3>1, <3>3
    <3> QED BY <3>2, <3>3
  <2> QED BY <1>6, <2>1 DEF WorkerInductive, Traffic
<1> QED BY <1>6, <1>9, <1>10 DEF WorkerInductive, Synthesized, Reported

\* A step of the other worker, which leaves the call alone.
LEMMA ElsewhereKeeps ==
  ASSUME WorkerInductive, at \in {"idle", "search"},
         UNCHANGED <<callVars, leadVars>>, Typed', Traffic'
  PROVE  WorkerInductive'
BY DEF WorkerInductive, callVars, leadVars, Synthesized, Reported

LEMMA AskStep ==
  ASSUME WorkerInductive, AskElsewhere
  PROVE  WorkerInductive'
<1>1. elsewhere' \in Queries \cup Urls
  BY WorkerAssumption DEF AskElsewhere
<1>2. Typed'
  BY <1>1 DEF WorkerInductive, Typed, AskElsewhere, callVars, pageVars, leadVars, SourceList
<1>3. Nothing \notin Queries \cup Urls
  BY WorkerAssumption
<1>4. Traffic'
  BY <1>3 DEF WorkerInductive, Traffic, AskElsewhere, pageVars
<1> QED BY <1>2, <1>4, ElsewhereKeeps DEF AskElsewhere

LEMMA AnswerStep ==
  ASSUME WorkerInductive, AnswerElsewhere
  PROVE  WorkerInductive'
<1> DEFINE Brought(batch) ==
             /\ cache' = Kept(elsewhere, batch)
             /\ \E sent \in IF batch = <<>> THEN {2} ELSE {1, 2} :
                  requests' = [requests EXCEPT ![elsewhere] = @ + sent]
<1>0. PICK t \in Tasks : \E batch \in Batches(MaxResults[t]) : Brought(batch)
  BY DEF AnswerElsewhere
<1>1. PICK batch \in Batches(MaxResults[t]) : Brought(batch)
  BY <1>0
<1>2. PICK sent \in {1, 2} : requests' = [requests EXCEPT ![elsewhere] = @ + sent]
  BY <1>1
<1>3. /\ elsewhere \in Queries /\ elsewhere' = Nothing
      /\ Nothing \notin Queries \cup Urls
  BY WorkerAssumption DEF AnswerElsewhere
<1>4. batch \in Seq(Urls)
  BY Limits, BatchLists
<1>5. /\ DOMAIN cache' = DOMAIN cache \cup {elsewhere}
      /\ \A x \in DOMAIN cache' : cache'[x] \in Seq(Urls)
  BY <1>1, <1>4 DEF Kept, WorkerInductive, Typed
<1>6. requests \in [Queries -> Nat] /\ requests' \in [Queries -> Nat]
      /\ requests'[elsewhere] = requests[elsewhere] + sent
      /\ \A x \in Queries \ {elsewhere} : requests'[x] = requests[x]
  BY <1>2, <1>3 DEF WorkerInductive, Typed
<1>7. /\ UNCHANGED <<callVars, pageVars, leadVars>>
      /\ at \in {"idle", "search"}
  BY DEF AnswerElsewhere
<1>8. Typed'
  BY <1>3, <1>5, <1>6, <1>7 DEF WorkerInductive, Typed, callVars, pageVars, leadVars, SourceList
<1>9. Traffic'
  <2>1. ASSUME NEW u \in Urls
        PROVE  fetches'[u] <= IF pages'[u] = "unseen" THEN 0 ELSE IF elsewhere' = u THEN 1 ELSE 2
    <3>1. fetches[u] \in Nat
          /\ fetches[u] <= IF pages[u] = "unseen" THEN 0 ELSE IF elsewhere = u THEN 1 ELSE 2
      BY DEF WorkerInductive, Traffic, Typed
    <3> QED BY <1>3, <1>7, <3>1 DEF pageVars
  <2>2. ASSUME NEW x \in Queries
        PROVE  requests'[x] <= IF x \notin DOMAIN cache' THEN 0
                               ELSE IF elsewhere' = x THEN 2 ELSE 4
    <3>1. requests[x] \in Nat
          /\ requests[x] <= IF x \notin DOMAIN cache THEN 0 ELSE IF elsewhere = x THEN 2 ELSE 4
      BY DEF WorkerInductive, Traffic, Typed
    <3>2. CASE x # elsewhere
      BY <1>3, <1>5, <1>6, <3>1, <3>2
    <3>3. CASE x = elsewhere
      BY <1>3, <1>5, <1>6, <3>1, <3>3
    <3> QED BY <3>2, <3>3
  <2> QED BY <2>1, <2>2 DEF Traffic
<1> QED BY <1>7, <1>8, <1>9, ElsewhereKeeps

LEMMA PageStep ==
  ASSUME WorkerInductive, PageElsewhere
  PROVE  WorkerInductive'
<1>1. /\ elsewhere \in Urls /\ elsewhere' = Nothing
      /\ Nothing \notin Queries \cup Urls
  BY WorkerAssumption DEF PageElsewhere
<1>2. PICK got \in {"text", "none"} : pages' = [pages EXCEPT ![elsewhere] = got]
  BY DEF PageElsewhere
<1>3. fetches' = [fetches EXCEPT ![elsewhere] = @ + 1]
  BY DEF PageElsewhere
<1>4. /\ UNCHANGED <<callVars, cache, requests, leadVars>>
      /\ at \in {"idle", "search"}
  BY DEF PageElsewhere
<1>5. Typed'
  BY <1>1, <1>2, <1>3, <1>4 DEF WorkerInductive, Typed, callVars, leadVars, SourceList
<1>6. Traffic'
  <2>1. ASSUME NEW x \in Queries
        PROVE  requests'[x] <= IF x \notin DOMAIN cache' THEN 0
                               ELSE IF elsewhere' = x THEN 2 ELSE 4
    <3>1. requests[x] \in Nat
          /\ requests[x] <= IF x \notin DOMAIN cache THEN 0 ELSE IF elsewhere = x THEN 2 ELSE 4
      BY DEF WorkerInductive, Traffic, Typed
    <3> QED BY <1>1, <1>4, <3>1
  <2>2. ASSUME NEW u \in Urls
        PROVE  fetches'[u] <= IF pages'[u] = "unseen" THEN 0 ELSE IF elsewhere' = u THEN 1 ELSE 2
    <3>1. /\ fetches[u] \in Nat /\ fetches \in [Urls -> Nat] /\ DOMAIN pages = Urls
          /\ fetches[u] <= IF pages[u] = "unseen" THEN 0 ELSE IF elsewhere = u THEN 1 ELSE 2
      BY DEF WorkerInductive, Traffic, Typed
    <3> QED BY <1>1, <1>2, <1>3, <3>1
  <2> QED BY <2>1, <2>2 DEF Traffic
<1> QED BY <1>4, <1>5, <1>6, ElsewhereKeeps

LEMMA LlmStep ==
  ASSUME WorkerInductive, LlmSynthesis
  PROVE  WorkerInductive'
<1>1. /\ at = "synthesis" /\ at' = "merge" /\ answer' \in ModelAnswers
      /\ UNCHANGED <<task, pending, results, excerpts, note, report, workerVars,
                     leadVars>>
  BY DEF LlmSynthesis
<1> DEFINE Blank == [f \in Fields |-> "absent"]
           Parsed == [llm : {TRUE}, update : ModelUpdates,
                      cited : {<<>>} \cup {<<i>> : i \in Invented}, questions : {{"asked"}}]
<1>2. \/ answer' \in Parsed
      \/ answer' = [llm |-> TRUE, update |-> Blank, cited |-> <<>>, questions |-> {"unparsed"}]
  BY <1>1 DEF ModelAnswers
<1>3. answer'.update \in ModelUpdates /\ answer'.cited \in Seq(Invented)
  <2>1. <<>> \in Seq(Invented)
    BY EmptySeq
  <2>2. \A i \in Invented : <<i>> \in Seq(Invented)
    OBVIOUS
  <2>3. Blank \in ModelUpdates
    BY DEF ModelUpdates
  <2> HIDE DEF Blank
  <2>4. CASE answer' \in Parsed
    <3>1. /\ answer'.update \in ModelUpdates
          /\ answer'.cited \in {<<>>} \cup {<<i>> : i \in Invented}
      BY <2>4
    <3> QED BY <2>1, <2>2, <3>1
  <2>5. CASE answer' = [llm |-> TRUE, update |-> Blank, cited |-> <<>>,
                           questions |-> {"unparsed"}]
    BY <2>1, <2>3, <2>5
  <2> QED BY <1>2, <2>4, <2>5
<1>4. note' = NoNote
  BY <1>1 DEF WorkerInductive, Synthesized
<1>5. Typed' /\ Traffic'
  BY <1>1 DEF WorkerInductive, Typed, Traffic, workerVars, pageVars, leadVars, SourceList
<1> QED BY <1>1, <1>3, <1>4, <1>5 DEF WorkerInductive, Synthesized, Reported

LEMMA FallbackStep ==
  ASSUME WorkerInductive, FallbackSynthesis
  PROVE  WorkerInductive'
<1>1. /\ at = "synthesis" /\ at' = "merge"
      /\ UNCHANGED <<task, pending, results, excerpts, report, workerVars, leadVars>>
  BY DEF FallbackSynthesis
<1>2. PICK u \in FallbackUpdates(task), failed \in BOOLEAN :
           /\ note' = IF failed THEN "llm_failed" ELSE NoNote
           /\ answer' = [llm |-> failed, update |-> u, cited |-> <<>>,
                            questions |-> FallbackQuestions
                                            \cup IF failed THEN {"llm_failed"} ELSE {}]
  BY DEF FallbackSynthesis
<1>3. u \in ModelUpdates
  BY DEF FallbackUpdates, ModelUpdates
<1>4. answer'.update \in ModelUpdates /\ answer'.cited \in Seq(Invented)
  BY <1>2, <1>3, EmptySeq
<1>5. /\ note' \in {NoNote, "llm_failed"}
      /\ note' # NoNote => note' \in answer'.questions
  BY <1>2
<1>6. Typed' /\ Traffic'
  BY <1>1 DEF WorkerInductive, Typed, Traffic, workerVars, pageVars, leadVars, SourceList
<1> QED BY <1>1, <1>4, <1>5, <1>6 DEF WorkerInductive, Synthesized, Reported

\* A value is neither replaced nor, outside the screen, dropped.
LEMMA CompletedKeeps ==
  ASSUME NEW t, NEW update, NEW u \in Completed(t, update), NEW f \in Fields,
         update[f] = "value", f \notin Screened \cap Own[t]
  PROVE  u[f] = "value"
<1>0. PICK b \in Bridged(t, f, update[f]) :
        \E s \in Screening(t, f, b) : u[f] \in Extracted(t, f, s)
  BY DEF Completed
<1>1. PICK s \in Screening(t, f, b) : u[f] \in Extracted(t, f, s)
  BY <1>0
<1>2. b = "value"
  BY <1>0 DEF Bridged
<1>3. s = "value"
  BY <1>1, <1>2 DEF Screening
<1> QED BY <1>1, <1>3 DEF Extracted

\* A step to a report that is well-typed, stands and survives.
LEMMA ReturnStep ==
  ASSUME WorkerInductive, at = "merge",
         NEW fields, NEW cited \in Seq(Invented), NEW questions, NEW issue,
         Return(fields, MergedSources(payload.sources, cited), questions, issue),
         fields \in [Fields -> {"default", "value"}],
         \A f \in Fields :
           answer.update[f] = "value"
             /\ (issue = "normalization_failed" \/ f \notin Screened \cap Own[task])
           => fields[f] = "value",
         answer.questions \subseteq questions,
         issue # NoNote => issue \in questions
  PROVE  WorkerInductive'
<1> DEFINE sources == MergedSources(payload.sources, cited)
<1>1. /\ report' = [payload |-> [fields |-> fields, sources |-> sources],
                    questions |-> questions, issue |-> issue]
      /\ at' = "report"
      /\ UNCHANGED <<task, pending, results, excerpts, answer, note, workerVars,
                     leadVars>>
  BY DEF Return
<1>2. SourceList(sources) /\ Stands(payload.sources, sources)
  BY MergedSourcesFacts DEF WorkerInductive, Typed
<1> HIDE DEF sources
<1>3. /\ report'.payload.fields = fields /\ report'.payload.sources = sources
      /\ report'.questions = questions /\ report'.issue = issue
  BY <1>1
<1>4. payload' = payload /\ results' = results
  BY <1>1 DEF leadVars
<1>5. Typed' /\ Traffic'
  BY <1>1 DEF WorkerInductive, Typed, Traffic, workerVars, pageVars, leadVars, SourceList
<1>6. Synthesized'
  BY <1>1 DEF WorkerInductive, Synthesized
<1>7. ValidFieldsSurvive'
  BY <1>1, <1>3 DEF ValidFieldsSurvive
<1>8. QuestionsSurvive'
  BY <1>1, <1>3 DEF QuestionsSurvive
<1>9. SourceList(report'.payload.sources) /\ Stands(payload.sources, report'.payload.sources)
  BY <1>2, <1>3
<1>10. Reported'
  BY <1>1, <1>3, <1>4, <1>7, <1>8, <1>9 DEF Reported, Stands, SourceList
<1> QED BY <1>5, <1>6, <1>10 DEF WorkerInductive

LEMMA MergeStep ==
  ASSUME WorkerInductive, Merge
  PROVE  WorkerInductive'
<1>1. at = "merge"
  BY DEF Merge
<1>2. PICK u \in Completed(task, answer.update) :
           /\ Valid(Merged(payload.fields, u))
           /\ Return(Merged(payload.fields, u),
                            MergedSources(payload.sources, answer.cited),
                            answer.questions, note)
  BY DEF Merge
<1> DEFINE fields == Merged(payload.fields, u)
<1>3. /\ answer.cited \in Seq(Invented) /\ note \in {NoNote, "llm_failed"}
      /\ note # NoNote => note \in answer.questions
  BY <1>1 DEF WorkerInductive, Synthesized
<1>4. u \in ModelUpdates
  BY DEF Completed
<1>5. fields \in [Fields -> {"default", "value"}]
  <2>1. fields = [f \in Fields |-> fields[f]]
    BY DEF Merged
  <2>2. ASSUME NEW f \in Fields PROVE fields[f] \in {"default", "value"}
    <3>1. u[f] \in {"absent", "default", "value", "bad"}
      BY <1>4 DEF ModelUpdates
    <3>2. payload.fields[f] \in {"default", "value"}
      BY DEF WorkerInductive, Typed
    <3>3. fields[f] # "bad"
      BY <1>2 DEF Valid
    <3> QED BY <3>1, <3>2, <3>3 DEF Merged
  <2> HIDE DEF fields
  <2> QED BY <2>1, <2>2
<1>6. ASSUME NEW f \in Fields, answer.update[f] = "value",
             note = "normalization_failed" \/ f \notin Screened \cap Own[task]
      PROVE  fields[f] = "value"
  <2>1. f \notin Screened \cap Own[task]
    BY <1>3, <1>6 DEF NoNote
  <2>2. u[f] = "value"
    BY <1>6, <2>1, CompletedKeeps
  <2> QED BY <2>2 DEF Merged
<1> HIDE DEF fields
<1> QED BY <1>1, <1>2, <1>3, <1>5, <1>6, ReturnStep DEF fields

LEMMA SalvageStep ==
  ASSUME WorkerInductive, Salvage
  PROVE  WorkerInductive'
<1>1. at = "merge"
  BY DEF Salvage
<1> DEFINE asked == SalvagedQuestions(answer.questions, FallbackQuestions)
<1>2. PICK u \in FallbackUpdates(task), cited \in {<<>>, answer.cited} :
           Return(Merged(payload.fields, SalvagedUpdate(answer.update, u)),
                         MergedSources(payload.sources, cited),
                         asked, "normalization_failed")
  BY DEF Salvage
<1> DEFINE fields == Merged(payload.fields, SalvagedUpdate(answer.update, u))
<1>3. cited \in Seq(Invented)
  BY <1>1, EmptySeq DEF WorkerInductive, Synthesized
<1>4. fields \in [Fields -> {"default", "value"}]
  <2>1. fields = [f \in Fields |-> fields[f]]
    BY DEF Merged
  <2>2. ASSUME NEW f \in Fields PROVE fields[f] \in {"default", "value"}
    <3>1. u[f] \in {"absent", "default", "value"}
      BY DEF FallbackUpdates
    <3>2. payload.fields[f] \in {"default", "value"}
      BY DEF WorkerInductive, Typed
    <3> QED BY <3>1, <3>2 DEF Merged, SalvagedUpdate, Salvaged
  <2> HIDE DEF fields
  <2> QED BY <2>1, <2>2
<1>5. ASSUME NEW f \in Fields, answer.update[f] = "value" PROVE fields[f] = "value"
  BY <1>5 DEF Merged, SalvagedUpdate, Salvaged
<1>6. answer.questions \subseteq asked /\ "normalization_failed" \in asked
  BY DEF SalvagedQuestions
<1> HIDE DEF fields, asked
<1> QED BY <1>1, <1>2, <1>3, <1>4, <1>5, <1>6, ReturnStep DEF fields

\* What a return leaves of the call.
LEMMA ForgetKeeps ==
  ASSUME WorkerInductive, Leave,
         UNCHANGED <<workerVars, refined, executions>>,
         payload'.fields \in [Fields -> {"default", "value"}], SourceList(payload'.sources)
  PROVE  WorkerInductive'
<1>1. /\ at' = "idle" /\ task' = NoTask /\ pending' = <<>> /\ results' = <<>>
      /\ answer' = Nil /\ note' = NoNote /\ report' = Nil
  BY DEF Leave
<1>2. pending' \in Seq(Queries) /\ results' \in Seq(Urls) /\ Len(results') = 0
  BY <1>1, EmptySeq
<1>3. task' \in Tasks => Len(results') <= MaxResults[task']
  BY <1>2, Limits
<1>4. Typed'
  BY <1>1, <1>2, <1>3 DEF WorkerInductive, Typed, workerVars, pageVars, SourceList
<1>5. Traffic'
  BY DEF WorkerInductive, Traffic, workerVars, pageVars
<1> QED BY <1>1, <1>4, <1>5 DEF WorkerInductive, Synthesized, Reported

LEMMA RaiseStep ==
  ASSUME WorkerInductive, Fail
  PROVE  WorkerInductive'
BY ForgetKeeps DEF Fail, leadVars, WorkerInductive, Typed, SourceList

LEMMA RecordStep ==
  ASSUME WorkerInductive, Record
  PROVE  WorkerInductive'
<1>1. /\ report.payload.fields \in [Fields -> {"default", "value"}]
      /\ SourceList(report.payload.sources)
  BY DEF Record, WorkerInductive, Reported
<1> QED BY <1>1, ForgetKeeps DEF Record

LEMMA WorkerStutterStep ==
  ASSUME WorkerInductive, UNCHANGED allVars
  PROVE  WorkerInductive'
BY DEF WorkerInductive, allVars, callVars, workerVars, pageVars, leadVars, Typed, Traffic,
       Synthesized, Reported, Stands, SourceList, ValidFieldsSurvive, QuestionsSurvive

LEMMA WorkerStepInductive ==
  ASSUME WorkerInductive, [WorkerNext]_allVars
  PROVE  WorkerInductive'
<1>1. CASE Work
  BY <1>1, SearchStep, FetchStep, LlmStep, FallbackStep, MergeStep, SalvageStep, RaiseStep,
     RecordStep DEF Work
<1>2. CASE AskElsewhere \/ AnswerElsewhere \/ PageElsewhere
  BY <1>2, AskStep, AnswerStep, PageStep
<1>3. CASE \E t \in Tasks : Refine(t) \/ Start(t)
  BY <1>3, RefineStep, StartStep
<1> QED BY <1>1, <1>2, <1>3, WorkerStutterStep DEF WorkerNext

LEMMA WorkerSpecInductive == WorkerSpec => []WorkerInductive
<1>1. WorkerInit => WorkerInductive
  BY WorkerInitInductive
<1>2. WorkerInductive /\ [WorkerNext]_allVars => WorkerInductive'
  BY WorkerStepInductive
<1> QED BY <1>1, <1>2, PTL DEF WorkerSpec

\* However often tasks are run again and however many queries and pages the workers
\* of two threads share, no query costs more than four requests and no page more
\* than two fetches (SearchCache).
THEOREM TrafficBounded == WorkerSpec => []BoundedTraffic
<1>1. WorkerInductive => BoundedTraffic
  <2> SUFFICES ASSUME WorkerInductive PROVE BoundedTraffic
    OBVIOUS
  <2>1. ASSUME NEW q \in Queries PROVE requests[q] <= IF elsewhere = q THEN 2 ELSE 4
    <3>1. requests[q] \in Nat
          /\ requests[q] <= IF q \notin DOMAIN cache THEN 0 ELSE IF elsewhere = q THEN 2 ELSE 4
      BY DEF WorkerInductive, Traffic, Typed
    <3> QED BY <3>1
  <2>2. ASSUME NEW u \in Urls PROVE fetches[u] <= IF elsewhere = u THEN 1 ELSE 2
    <3>1. fetches[u] \in Nat
          /\ fetches[u] <= IF pages[u] = "unseen" THEN 0 ELSE IF elsewhere = u THEN 1 ELSE 2
      BY DEF WorkerInductive, Traffic, Typed
    <3> QED BY <3>1
  <2> QED BY <2>1, <2>2 DEF BoundedTraffic
<1> QED BY <1>1, WorkerSpecInductive, PTL

\* Whatever the model answers and whichever way it takes to a report, the payload is
\* valid, and no sound field and no open question of the answer is lost
\* (_merge_and_validate, run).
THEOREM AnswersSurviving == WorkerSpec => []AnswersSurvive
<1>1. WorkerInductive => AnswersSurvive
  <2> SUFFICES ASSUME WorkerInductive PROVE AnswersSurvive
    OBVIOUS
  <2>1. ToSet(pending) \subseteq Queries /\ ToSet(results) \subseteq Urls
    BY ListElements DEF WorkerInductive, Typed
  <2>2. \A q \in DOMAIN cache : ToSet(cache[q]) \subseteq Urls
    BY ListElements DEF WorkerInductive, Typed
  <2>3. answer # Nil => answer.update \in [Fields -> Standing]
    BY DEF WorkerInductive, Synthesized, ModelUpdates, Standing
  <2>4. IsInjective(payload.sources) /\ Len(payload.sources) <= MaxSources
    BY DEF WorkerInductive, Typed, SourceList
  <2>5. WorkerTypeOK
    BY <2>1, <2>2, <2>3, <2>4 DEF WorkerInductive, Typed, WorkerTypeOK
  <2>6. ValidFieldsSurvive /\ QuestionsSurvive
    BY DEF WorkerInductive, Reported, ValidFieldsSurvive, QuestionsSurvive
  <2> QED BY <2>5, <2>6 DEF AnswersSurvive
<1> QED BY <1>1, WorkerSpecInductive, PTL

\* Neither a later task nor a citation of the model pushes out a source that research
\* found, for any lists and any limit (_merge_sources).
THEOREM SourcesStanding == WorkerSpec => SourcesStand
<1>1. ASSUME WorkerInductive, [WorkerNext]_allVars
      PROVE  /\ IsPrefix(payload.sources, payload'.sources)
             /\ \A u \in ToSet(payload'.sources) \ ToSet(payload.sources) :
                  u \in Invented =>
                    ToSet(results) \cup ToSet(BriefSources)
                      \subseteq ToSet(payload'.sources)
  <2>1. CASE Record
    <3>1. Stands(payload.sources, report.payload.sources) /\ payload' = report.payload
      BY <1>1, <2>1 DEF Record, WorkerInductive, Reported
    <3> QED BY <3>1 DEF Stands
  <2>2. CASE payload' = payload
    <3>1. IsPrefix(payload.sources, payload.sources)
      <4>1. payload.sources \in Seq(Sources) /\ Len(payload.sources) \in Nat
        BY <1>1, LenProperties DEF WorkerInductive, Typed, SourceList
      <4> QED BY <4>1 DEF IsPrefix
    <3> QED BY <2>2, <3>1
  <2>3. Record \/ payload' = payload
    BY <1>1 DEF WorkerNext, Work, Search, FetchPages, LlmSynthesis, FallbackSynthesis, Merge,
                Salvage, Return, Fail, AskElsewhere, AnswerElsewhere, PageElsewhere, Refine,
                Start, allVars, leadVars
  <2> QED BY <2>1, <2>2, <2>3
<1> QED BY <1>1, WorkerSpecInductive, PTL DEF WorkerSpec, SourcesStand, SourcesAreKept,
                                              FoundBeforeCited
=============================================================================
