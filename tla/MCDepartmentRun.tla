--------------------------- MODULE MCDepartmentRun ---------------------------
(* The Buyer department: peer_companies depends on a task of another          *)
(* department, monetization_redeployment on peer_companies.                   *)
EXTENDS DepartmentRun

BuyerAssignments == <<"peer_companies", "monetization_redeployment">>

BuyerDependsOn ==
  [t \in {"peer_companies", "monetization_redeployment"} |->
     IF t = "peer_companies" THEN {"market_situation"} ELSE {"peer_companies"}]

\* Everything passes; only supporting rules fail; some core rules fail; nothing
\* was found.
BuyerReports ==
  {[core |-> "all",  approved |-> TRUE,  facts |-> TRUE],
   [core |-> "all",  approved |-> FALSE, facts |-> TRUE],
   [core |-> "some", approved |-> FALSE, facts |-> TRUE],
   [core |-> "none", approved |-> FALSE, facts |-> FALSE]}
=============================================================================
