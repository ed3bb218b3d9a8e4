--------------------------- MODULE MCRunLifecycle ---------------------------
(***************************************************************************)
(* A small instance of RunLifecycle: a core question and one that synthesis  *)
(* answers and the gate exempts; up to two public gaps, of which one may be   *)
(* attempted, so that the budget matters; gaps about the core question and    *)
(* gaps about none; two sessions that resume the same run.                    *)
(***************************************************************************)
EXTENDS RunLifecycle

NarrowRegistry == {"q_company_fundamentals", "q_negotiation_relevance"}
OfSynthesis == {"q_negotiation_relevance"}

Scopes == {{}, {"q_company_fundamentals"}}

TwoSessions == {"r1", "r2"}
=============================================================================
