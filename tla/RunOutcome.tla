----------------------------- MODULE RunOutcome -----------------------------
(***************************************************************************)
(* What a run promises about its stored outcome.  A run settles once, on a  *)
(* final status, on a pause, or on "failed"; a pause is decided only by a   *)
(* call that found the run paused, and never comes back; a failed run stays *)
(* failed, and a run fails only before anybody resumes it.                  *)
(***************************************************************************)
EXTENDS FiniteSets

CONSTANT Resumers

VARIABLES outcome,   \* the status of the stored run, "none" before the first
          deciding   \* the resume calls that found the run paused and may decide

Final == {"meeting_ready", "discovery_ready_not_execution_ready",
          "blocked_not_meeting_ready"}
Paused == "needs_user_selection"

Init ==
  /\ outcome = "none"
  /\ deciding = {}

Settle ==
  /\ outcome = "none"
  /\ outcome' \in Final \cup {Paused, "failed"}
  /\ UNCHANGED deciding

Fail ==
  /\ outcome \in Final \cup {Paused}
  /\ deciding = {}
  /\ outcome' = "failed"
  /\ UNCHANGED deciding

Begin(r) ==
  /\ outcome = Paused
  /\ r \notin deciding
  /\ deciding' = deciding \cup {r}
  /\ UNCHANGED outcome

Decide(r) ==
  /\ r \in deciding
  /\ outcome' \in Final
  /\ deciding' = deciding \ {r}

\* Calls that raise, or die with the process.
Abandon ==
  /\ deciding' \in SUBSET deciding
  /\ UNCHANGED outcome

Next == Settle \/ Fail \/ Abandon \/ \E r \in Resumers : Begin(r) \/ Decide(r)

Spec == Init /\ [][Next]_<<outcome, deciding>>
=============================================================================
