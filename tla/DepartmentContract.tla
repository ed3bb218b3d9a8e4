------------------------- MODULE DepartmentContract -------------------------
(***************************************************************************)
(* What DepartmentRuntime.run promises its caller, with everything that     *)
(* happens inside the group chat hidden: it delivers one result, once.      *)
(***************************************************************************)
EXTENDS Packages

CONSTANTS Tasks,         \* the assignments the department was called with
          NeedsAccepted  \* require_any_accepted_task of its policy

VARIABLE result   \* what run returned, None before that

Init == result = None

Deliver ==
  /\ result = None
  /\ result' \in Promised(Tasks, NeedsAccepted)

Spec == Init /\ [][Deliver]_result
=============================================================================
