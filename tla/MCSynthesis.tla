---------------------------- MODULE MCSynthesis ----------------------------
(***************************************************************************)
(* Synthesis chats of eight messages, and the first rounds made of a few     *)
(* outcomes of the departments, a few states of the contacts, the financial  *)
(* evidence and the routes to buyers, and a few qualities of the evidence:   *)
(* each on both sides of every threshold of the assessment.                 *)
(***************************************************************************)
EXTENDS Synthesis

SynthesisMembers == <<"critic", "judge", "analyst">>

Passed == [gate |-> "passed", decision |-> "accepted"]
Everywhere(p) == [Company |-> p, Market |-> p, Buyer |-> p, Contact |-> p]

\* One department is otherwise, or all have delivered fallback packages.
Outcomes ==
  {[Everywhere(Passed) EXCEPT ![d] = p] :
     d \in Researching, p \in {q \in Admitted : q.gate # "passed"}}
    \cup {Everywhere([gate |-> "absent", decision |-> "accepted_with_gaps"])}

Contacts(coverage, targets, verified, listed) ==
  [coverage |-> coverage, targets |-> targets, verified |-> verified, listed |-> listed]

SomeContacts ==
  {Contacts("none", 0, FALSE, 0), Contacts("low", 1, TRUE, 1), Contacts("fair", 1, TRUE, 1),
   Contacts("fair", 2, FALSE, 2), Contacts("low", 2, TRUE, 2)}

Finance(key, inventory, sheet, appraised, hard, primary) ==
  [key |-> key, inventory |-> inventory, sheet |-> sheet, risks |-> FALSE,
   appraised |-> appraised, hard |-> hard, primary |-> primary]

SomeFinance ==
  {Finance(0, FALSE, FALSE, FALSE, 0, FALSE), Finance(0, FALSE, FALSE, FALSE, 0, TRUE),
   Finance(2, FALSE, FALSE, FALSE, 2, TRUE), Finance(1, TRUE, FALSE, FALSE, 2, TRUE),
   Finance(2, TRUE, FALSE, FALSE, 2, TRUE), Finance(1, TRUE, TRUE, TRUE, 1, TRUE),
   Finance(1, TRUE, TRUE, FALSE, 1, FALSE)}

Routes == {[buyers |-> 0, monetization |-> FALSE], [buyers |-> 1, monetization |-> TRUE]}

Evidence(accepted, degraded, external, unresolved, packets, gaps, described) ==
  [accepted |-> accepted, degraded |-> degraded, external |-> external,
   unresolved |-> unresolved, packets |-> packets, gaps |-> gaps, described |-> described]

SomeEvidence ==
  {Evidence(8, 0, 2, FALSE, 5, 0, TRUE), Evidence(8, 0, 2, FALSE, 5, 0, FALSE),
   Evidence(3, 0, 2, TRUE, 0, 13, TRUE), Evidence(4, 0, 0, FALSE, 5, 12, FALSE),
   Evidence(0, 3, 1, FALSE, 0, 0, FALSE), Evidence(0, 8, 2, TRUE, 5, 0, FALSE)}

FirstRounds ==
  [packages : Outcomes, named : SUBSET {"Company", "Market", "Buyer"},
   contacts : SomeContacts, finance : SomeFinance, routes : Routes, evidence : SomeEvidence]
=============================================================================
