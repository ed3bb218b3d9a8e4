--------------------------- MODULE MCWorkingSets ---------------------------
(***************************************************************************)
(* Two departments at once and two afterwards; one of each pair is retried   *)
(* and reviewed again; two departments of the batch bring the same fact.      *)
(***************************************************************************)
EXTENDS WorkingSets

Batch == <<"Company", "Market">>
Afterwards == <<"Buyer", "Contact">>
Catalogue == [Company |-> {"fundamentals"}, Market |-> {"situation"},
              Buyer |-> {"buyers"}, Contact |-> {"contacts"}]
Facts == [fundamentals |-> <<"size", "trend">>, situation |-> <<"trend">>,
          buyers |-> <<"firm">>, contacts |-> <<>>]
Attempts == [fundamentals |-> 2, situation |-> 1, buyers |-> 2, contacts |-> 1]
Reviews == [fundamentals |-> 2, situation |-> 2, buyers |-> 2, contacts |-> 1]
=============================================================================
