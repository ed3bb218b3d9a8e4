-------------------------- MODULE MCResearchWorker --------------------------
(***************************************************************************)
(* Two tasks of one section whose queries are shared, the refined ones too, one   *)
(* result each, and more URLs to cite than a payload holds; the buyers are        *)
(* screened.                                                                *)
(***************************************************************************)
EXTENDS ResearchWorker

BothTasks == {"peer_companies", "monetization_redeployment"}
PerTask(peers, monetization) ==
  [t \in BothTasks |-> IF t = "peer_companies" THEN peers ELSE monetization]

Strategy == PerTask(<<"resale">>, <<"resale">>)
Refinement == PerTask(<<"rivals">>, <<"resale">>)
QueryLimit == PerTask(2, 2)
ResultLimit == PerTask(1, 1)
FieldsOf == PerTask({"peers"}, {"buyers"})
FromBrief == <<"homepage">>
=============================================================================
