----------------------------- MODULE MCStepBus -----------------------------
(***************************************************************************)
(* A first round in small: the main thread emits before the departments     *)
(* start, while Market still works (the admission of Company), and after    *)
(* both; the resume repeats one step of the run and adds one of its own.    *)
(***************************************************************************)
EXTENDS StepBus

Small == {"main", "company", "market"}

SmallKeys == {"initialize", "research_c", "turn_c", "turn_m", "admit_c",
              "leaky", "export", "resume"}

S(key, kind, secret, main, company, market) ==
  [key |-> key, kind |-> kind, secret |-> secret,
   waits |-> [t \in Small |-> CASE t = "main" -> main
                                [] t = "company" -> company
                                [] OTHER -> market]]

Run ==
  [t \in Small |->
     IF t = "main"
     THEN <<S("initialize", "state_transition", FALSE, 0, 0, 0),
            S("admit_c", "state_transition", FALSE, 0, 2, 0),
            S("export", "state_transition", FALSE, 0, 2, 2)>>
     ELSE IF t = "company"
     THEN <<S("research_c", "capability_call", FALSE, 1, 0, 0),
            S("turn_c", "no_op", FALSE, 1, 0, 0)>>
     ELSE <<S("leaky", "no_op", TRUE, 1, 0, 0),
            S("turn_m", "no_op", FALSE, 1, 0, 0)>>]

Resumed == <<S("resume", "state_transition", FALSE, 0, 0, 0),
             S("export", "state_transition", FALSE, 0, 0, 0)>>
=============================================================================
