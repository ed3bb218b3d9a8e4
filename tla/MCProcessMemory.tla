------------------------- MODULE MCProcessMemory -------------------------
(***************************************************************************)
(* Two runs and four tasks: a quarter of them may go wrong.  The key of the  *)
(* Contact task contains the name of the Company department too.            *)
(***************************************************************************)
EXTENDS ProcessMemory

SmallDepartments == {"Company", "Contact"}

SmallTasks ==
  [t \in {"fundamentals", "finance", "target_contacts", "qualification"} |->
     CASE t = "fundamentals"    -> [owner |-> "Company", mentions |-> {"Company"}]
       [] t = "finance"         -> [owner |-> "Company", mentions |-> {}]
       [] t = "target_contacts" -> [owner |-> "Contact", mentions |-> {"Company", "Contact"}]
       [] OTHER                 -> [owner |-> "Contact", mentions |-> {"Contact"}]]

T(status, finds, approved, text) ==
  [status |-> status, found |-> finds, approved |-> approved, text |-> text]
Unfit == T("degraded", {"queries"}, FALSE, "clean")

\* A run of which one task went wrong, one of which two did, a blocked one, and
\* one that paused.
SmallOutcomes ==
  LET Ends(status, usable, tasks, escalated) ==
        [status |-> status, usable |-> usable, strong |-> usable, tasks |-> tasks,
         escalated |-> {}, coded |-> {}, retried |-> escalated]
      Good == [t \in DOMAIN SmallTasks |->
                 CASE t = "fundamentals" -> T("accepted", {"queries"}, FALSE, "clean")
                   [] t = "finance"      -> T("accepted", {}, FALSE, "named")
                   [] t = "target_contacts" -> T("accepted", {}, FALSE, "amount")
                   [] OTHER              -> Unfit]
      Poor == [Good EXCEPT !["finance"] = Unfit]
  IN {Ends("meeting_ready", TRUE, Good, {"Company"}),
      Ends("meeting_ready", TRUE, Poor, {}),
      Ends("blocked_not_meeting_ready", FALSE, [Poor EXCEPT !["target_contacts"] = Unfit], {}),
      Ends("needs_user_selection", FALSE, Good, {})}

\* A pattern of an older version with a score of its own.
SmallSeed ==
  {[role |-> <<"Company", "Lead">>, kind |-> "retry-patterns", task |-> "all",
    level |-> "full_run", score |-> 100, text |-> "clean", run |-> "earlier"]}

SmallRetrievable == {<<"Company", "Lead">>, <<"Company", "Critic">>}
=============================================================================
