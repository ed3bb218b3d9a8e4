-------------------------- MODULE MCSupervisorLoop --------------------------
(* All four departments, with the task catalogue cut to the tasks whose       *)
(* conditions and questions interact.                                         *)
EXTENDS SupervisorLoop

FirstBatch == <<"CompanyDepartment", "MarketDepartment">>
Afterwards == <<"BuyerDepartment", "ContactDepartment">>

Catalogue ==
  [d \in {"CompanyDepartment", "MarketDepartment", "BuyerDepartment", "ContactDepartment"} |->
     CASE d = "CompanyDepartment" -> <<"company_fundamentals">>
       [] d = "MarketDepartment"  -> <<"market_situation">>
       [] d = "BuyerDepartment"   -> <<"peer_companies">>
       [] d = "ContactDepartment" -> <<"contact_discovery", "target_company_contacts",
                                       "contact_qualification">>]

\* With a task of the parallel batch that depends on another one, and may
\* therefore be blocked.
DependentCatalogue ==
  [Catalogue EXCEPT !["CompanyDepartment"] = <<"company_fundamentals", "financial_deep_dive">>,
                    !["ContactDepartment"] = <<"target_company_contacts">>]

\* require_any_accepted_task is off in contact.yaml only.
Policies == [d \in DOMAIN Catalogue |-> d # "ContactDepartment"]

KeysOf(catalogue) == UNION {{catalogue[d][i] : i \in DOMAIN catalogue[d]} : d \in DOMAIN catalogue}

Condition(t) ==
  CASE t = "contact_discovery"     -> "buyer_department_has_prioritized_firms"
    [] t = "contact_qualification" -> "contact_discovery_completed"
    [] OTHER                       -> "none"

Conditions == [t \in KeysOf(Catalogue) |-> Condition(t)]
DependentConditions == [t \in KeysOf(DependentCatalogue) |-> Condition(t)]

\* Discovery and qualification share a question; one belongs to synthesis.
Covered(t) ==
  CASE t \in {"contact_discovery", "contact_qualification"} -> {"q_contact_intelligence"}
    [] t = "company_fundamentals"    -> {"q_company_fundamentals"}
    [] t = "financial_deep_dive"     -> {"q_financial_deep_dive"}
    [] t = "market_situation"        -> {"q_market_situation"}
    [] t = "peer_companies"          -> {"q_peer_companies"}
    [] t = "target_company_contacts" -> {"q_target_company_contacts"}

Coverage == [t \in KeysOf(Catalogue) |-> Covered(t)]
DependentCoverage == [t \in KeysOf(DependentCatalogue) |-> Covered(t)]

Registry ==
  UNION {Covered(t) : t \in KeysOf(Catalogue) \cup KeysOf(DependentCatalogue)}
    \cup {"q_negotiation_relevance"}
=============================================================================
