---------------------------- MODULE UserSession ----------------------------
(***************************************************************************)
(* People at the browser (ui/pages/recherche.py): a session starts a run in *)
(* a thread of its own and waits for its result, loads stored runs, resumes  *)
(* paused ones and asks follow-up questions (orchestration/follow_up.py),    *)
(* whose answers are appended to the history of the run.  Sessions share the *)
(* exported artifacts and the histories, nothing else.                       *)
(*                                                                         *)
(* Streamlit runs the page as a script, from the top, at every interaction,  *)
(* and abandons the script that is running at one of its accesses to the     *)
(* session state: of the assignments of a handler only the first may happen. *)
(***************************************************************************)
EXTENDS Naturals, FiniteSets, SequencesExt, Packages

CONSTANTS Sessions,
          Runs,          \* the runs that may be started
          MaxSeconds,    \* bound: the seconds in which runs are started
          MaxClicks,     \* bound: runs started, loaded, resumed, questions asked
          MaxBreaks,     \* bound: scripts abandoned and pages opened anew
          MaxMoves,      \* bound: clicks and breaks together
          Production     \* the storage profile: database, or else files

ASSUME SessionAssumption ==
  /\ "free" \notin Sessions
  /\ Runs \subseteq Nat \ {0}
  /\ MaxSeconds \in Nat \ {0} /\ MaxClicks \in Nat
  /\ MaxBreaks \in Nat /\ MaxMoves \in Nat
  /\ Production \in BOOLEAN

VARIABLES
  page,      \* session -> its session_state
  script,    \* session -> the slow call its script is in, None
  thread,    \* run -> its thread
  queue,     \* run -> the event that waits in its queue, None
  launched,  \* run -> the ids its threads took: one thread, one id
  clock,
  data, context, \* run id -> the exported pipeline_data and run_context, None
  history,   \* run id -> follow_up_history
  lock,      \* run id -> the session that holds the lock file, or "free"
  clicks, breaks,
  abandoned, \* history: session -> its scripts abandoned since it was opened
  answered   \* history: the answers that were returned

storeVars == <<data, context, history, lock>>
runVars == <<thread, queue, launched, clock>>
pageVars == <<page, breaks, abandoned>>
vars == <<pageVars, script, runVars, storeVars, clicks, answered>>

Ids == 1 .. MaxSeconds
Paused == "needs_user_selection"
\* Stands for the final statuses, which are all shown alike here.
Resolved == {"meeting_ready"}

\* What a run produced: the run and its id, who exported it, the status in it.
Artifact == [by : Runs, run : Ids, export : Sessions \cup {"run"},
             status : Resolved \cup {Paused, "failed"}]
Answer == [run : Ids, number : 1 .. MaxClicks]
Event == [kind : {"result"}, run : Ids, artifact : Artifact] \cup [kind : {"error"}]

Page ==
  [running : BOOLEAN, done : BOOLEAN, started : BOOLEAN, queue : Runs \cup {0},
   data : Artifact \cup {None}, context : Artifact \cup {None},
   status : Resolved \cup {Paused, "failed", "none"},
   run : Ids \cup {0}]

Script ==
  [call : {"load", "answer", "append", "resume", "export"}, run : Ids,
   data : Artifact \cup {None}, answer : Answer \cup {None}, history : Seq(Answer)]

Stage == {"unborn", "queued", "working", "data", "over"}

TypeOK ==
  /\ page \in [Sessions -> Page]
  /\ script \in [Sessions -> Script \cup {None}]
  /\ thread \in [Runs -> [stage : Stage, id : Ids \cup {0}, artifact : Artifact \cup {None}]]
  /\ queue \in [Runs -> Event \cup {None}]
  /\ launched \in [Runs -> Seq(Ids)]
  /\ clock \in Ids
  /\ data \in [Ids -> Artifact \cup {None}]
  /\ context \in [Ids -> Artifact \cup {None}]
  /\ history \in [Ids -> Seq(Answer)]
  /\ lock \in [Ids -> Sessions \cup {"free"}]
  /\ clicks \in 0 .. MaxClicks /\ breaks \in 0 .. MaxBreaks
  /\ abandoned \in [Sessions -> Nat]
  /\ answered \subseteq Answer

\* _init_state.
NewPage ==
  [running |-> FALSE, done |-> FALSE, started |-> FALSE, queue |-> 0, data |-> None,
   context |-> None, status |-> "none", run |-> 0]

Init ==
  /\ page = [s \in Sessions |-> NewPage]
  /\ script = [s \in Sessions |-> None]
  /\ thread = [n \in Runs |-> [stage |-> "unborn", id |-> 0, artifact |-> None]]
  /\ queue = [n \in Runs |-> None]
  /\ launched = [n \in Runs |-> <<>>]
  /\ clock = 1
  /\ data = [i \in Ids |-> None]
  /\ context = [i \in Ids |-> None]
  /\ history = [i \in Ids |-> <<>>]
  /\ lock = [i \in Ids |-> "free"]
  /\ clicks = 0 /\ breaks = 0
  /\ abandoned = [s \in Sessions |-> 0]
  /\ answered = {}

-----------------------------------------------------------------------------
(* The script of a page.                                                    *)

\* Of the new values those of these fields, the others as they are.
Assigned(p, new, fields) ==
  [f \in DOMAIN p |-> IF f \in fields \cap DOMAIN new THEN new[f] ELSE p[f]]

Click ==
  /\ clicks < MaxClicks
  /\ clicks + breaks < MaxMoves
  /\ clicks' = clicks + 1

Break ==
  /\ breaks < MaxBreaks
  /\ clicks + breaks < MaxMoves
  /\ breaks' = breaks + 1

\* The assignments of a handler, in their order: all of them, or those before
\* the script is abandoned.
Perform(s, new, order) ==
  \/ /\ page' = [page EXCEPT ![s] = Assigned(@, new, ToSet(order))]
     /\ UNCHANGED <<breaks, abandoned>>
  \/ /\ Break
     /\ \E k \in 0 .. Len(order) - 1 :
          page' = [page EXCEPT ![s] = Assigned(@, new, {order[i] : i \in 1 .. k})]
     /\ abandoned' = [abandoned EXCEPT ![s] = @ + 1]

Idle(s) == script[s] = None
Live(s) == page[s].running /\ ~ page[s].done
\* What is below the live view is rendered only without one.
Shows(s) == Idle(s) /\ ~ Live(s) /\ page[s].done /\ page[s].run # 0

\* Mutant: an error leaves the page running.
FinishedIfResult(event) ==
  IF event.kind = "result"
  THEN [data |-> event.artifact, context |-> event.artifact,
        status |-> event.artifact.status, run |-> event.run,
        done |-> TRUE, running |-> FALSE, started |-> FALSE, queue |-> 0]
  ELSE [started |-> FALSE, queue |-> 0]

\* The event leaves the queue before anything is assigned.
Finished(event) ==
  IF event.kind = "result"
  THEN [data |-> event.artifact, context |-> event.artifact,
        status |-> event.artifact.status, run |-> event.run,
        done |-> TRUE, running |-> FALSE, started |-> FALSE, queue |-> 0]
  ELSE [done |-> TRUE, running |-> FALSE, started |-> FALSE, queue |-> 0]

\* _drain_queue, which begins every run of the script.
Drain(s) ==
  /\ Idle(s)
  /\ page[s].queue # 0
  /\ queue[page[s].queue] # None
  /\ queue' = [queue EXCEPT ![page[s].queue] = None]
  /\ Perform(s, Finished(queue[page[s].queue]),
             <<"data", "context", "status", "run", "done", "running", "started", "queue">>)
  /\ UNCHANGED <<script, thread, launched, clock, storeVars, clicks, answered>>

\* _start_pipeline, behind a button that is disabled while a run is under way.
Start(s) ==
  /\ Idle(s)
  /\ Click
  /\ ~ page[s].running
  /\ \E n \in Runs :
       /\ thread[n].stage = "unborn"
       /\ \A m \in Runs : m < n => thread[m].stage # "unborn"
       /\ thread' = [thread EXCEPT ![n].stage = "queued"]
       /\ Perform(s, [NewPage EXCEPT !.running = TRUE, !.queue = n],
                  <<"running", "done", "started", "data", "context", "status", "run",
                    "queue">>)
  /\ UNCHANGED <<script, queue, launched, clock, storeVars, answered>>

\* The run takes its id from the clock, in seconds: it may be the second of the
\* run before.
Born(n) ==
  /\ clock' \in {clock, clock + 1} \cap Ids
  /\ launched' = [launched EXCEPT ![n] = Append(@, clock')]
  /\ thread' = [thread EXCEPT ![n].stage = "working", ![n].id = clock']

\* Mutant: the thread is started first, then the flag is set.
LaunchThenFlag(s) ==
  /\ Idle(s)
  /\ Live(s)
  /\ ~ page[s].started
  /\ page[s].queue # 0
  /\ Born(page[s].queue)
  /\ Perform(s, [started |-> TRUE], <<"started">>)
  /\ UNCHANGED <<script, queue, storeVars, clicks, answered>>

\* The live view, at 0.8 seconds: the flag is set, and without another access to
\* the session state the thread is started.  A page without a queue waits for
\* nothing, for ever: its thread dies of its first message.
Launch(s) ==
  /\ Idle(s)
  /\ Live(s)
  /\ ~ page[s].started
  /\ page[s].queue # 0
  /\ page' = [page EXCEPT ![s].started = TRUE]
  /\ Born(page[s].queue)
  /\ UNCHANGED <<script, breaks, abandoned, queue, storeVars, clicks, answered>>

\* The page is opened anew: its queue is nobody's, its thread goes on.
Reload(s) ==
  /\ Idle(s)
  /\ Break
  /\ page' = [page EXCEPT ![s] = NewPage]
  /\ abandoned' = [abandoned EXCEPT ![s] = 0]
  /\ UNCHANGED <<script, runVars, storeVars, clicks, answered>>

-----------------------------------------------------------------------------
(* The thread of a run.                                                     *)

Stand(n, stage) == thread' = [thread EXCEPT ![n].stage = stage]

\* export_run, the artifacts one by one: the results in the order they are
\* read by others.
ExportData(n) ==
  /\ thread[n].stage = "working"
  /\ \E status \in Resolved \cup {Paused} :
       LET artifact == [by |-> n, run |-> thread[n].id, export |-> "run",
                        status |-> status]
       IN /\ thread' = [thread EXCEPT ![n].stage = "data", ![n].artifact = artifact]
          /\ data' = [data EXCEPT ![thread[n].id] = artifact]
  /\ UNCHANGED <<pageVars, script, queue, launched, clock, context, history, lock,
                 clicks, answered>>

Posted(n, artifact) ==
  /\ queue' = [queue EXCEPT ![n] = [kind |-> "result", run |-> thread[n].id,
                                    artifact |-> artifact]]
  /\ Stand(n, "over")

\* The rest of the run touches nothing that is seen here; its result is posted.
ExportContext(n) ==
  /\ thread[n].stage = "data"
  /\ context' = [context EXCEPT ![thread[n].id] = thread[n].artifact]
  /\ Posted(n, thread[n].artifact)
  /\ UNCHANGED <<pageVars, script, launched, clock, data, history, lock, clicks, answered>>

\* An input that is refused: a result, and nothing exported.
Refuse(n) ==
  /\ thread[n].stage = "working"
  /\ Posted(n, [by |-> n, run |-> thread[n].id, export |-> "run", status |-> "failed"])
  /\ UNCHANGED <<pageVars, script, launched, clock, storeVars, clicks, answered>>

\* The export itself raises, and so does the export of that error.
Raise(n) ==
  /\ thread[n].stage \in {"working", "data"}
  /\ queue' = [queue EXCEPT ![n] = [kind |-> "error"]]
  /\ Stand(n, "over")
  /\ UNCHANGED <<pageVars, script, launched, clock, storeVars, clicks, answered>>

-----------------------------------------------------------------------------
(* Stored runs.                                                             *)

Call(s, name, id) ==
  script' = [script EXCEPT ![s] = [call |-> name, run |-> id, data |-> None,
                                   answer |-> None, history |-> <<>>]]
Return(s) == script' = [script EXCEPT ![s] = None]

\* load_run_artifact reads one artifact, then the other; what is missing is an
\* exception that leaves the page as it is.
Load(s) ==
  /\ Idle(s)
  /\ Click
  /\ ~ page[s].running
  /\ \E i \in Ids :
       /\ data[i] # None
       /\ script' = [script EXCEPT ![s] = [call |-> "load", run |-> i, data |-> data[i],
                                          answer |-> None, history |-> <<>>]]
  /\ UNCHANGED <<pageVars, runVars, storeVars, answered>>

\* Mutant: the run stays the one that was shown before.
RestoredButRun(call) ==
  [running |-> FALSE, done |-> TRUE, started |-> FALSE, data |-> call.data,
   context |-> context[call.run], status |-> context[call.run].status, queue |-> 0]

Restored(call) ==
  [running |-> FALSE, done |-> TRUE, started |-> FALSE, data |-> call.data,
   context |-> context[call.run], run |-> call.run,
   status |-> context[call.run].status, queue |-> 0]

Loaded(s) ==
  /\ ~ Idle(s)
  /\ script[s].call = "load"
  /\ LET call == script[s] IN
     IF context[call.run] = None
     THEN UNCHANGED pageVars
     ELSE Perform(s, Restored(call),
                  <<"running", "done", "started", "data", "context", "run", "status",
                    "queue">>)
  /\ Return(s)
  /\ UNCHANGED <<runVars, storeVars, clicks, answered>>

\* The follow-up form takes the id of any run; a run that is not exported is an
\* error message.  answer_follow_up finds an answer in what is exported.
Ask(s) ==
  /\ Shows(s)
  /\ Click
  /\ \E i \in Ids :
       /\ data[i] # None
       /\ context[i] # None
       /\ script' = [script EXCEPT ![s] =
                       [call |-> "answer", run |-> i, data |-> None,
                        answer |-> [run |-> i, number |-> clicks + 1], history |-> <<>>]]
  /\ UNCHANGED <<pageVars, runVars, storeVars, answered>>

\* Mutant: no lock is taken.
ReadHistoryAtOnce(s) ==
  /\ ~ Idle(s)
  /\ script[s].call = "answer"
  /\ LET id == script[s].run IN
     /\ lock' = IF Production THEN lock ELSE [lock EXCEPT ![id] = s]
     /\ script' = [script EXCEPT ![s].call = "append", ![s].history = history[id]]
  /\ UNCHANGED <<pageVars, runVars, data, context, history, clicks, answered>>

\* export_follow_up takes the lock file and reads the history;
\* append_follow_up_history just reads the latest row.
ReadHistory(s) ==
  /\ ~ Idle(s)
  /\ script[s].call = "answer"
  /\ LET id == script[s].run IN
     /\ Production \/ lock[id] = "free"
     /\ lock' = IF Production THEN lock ELSE [lock EXCEPT ![id] = s]
     /\ script' = [script EXCEPT ![s].call = "append", ![s].history = history[id]]
  /\ UNCHANGED <<pageVars, runVars, data, context, history, clicks, answered>>

\* The history with the answer at its end, as a file that replaces the other, or
\* as a newer row.
AppendAnswer(s) ==
  /\ ~ Idle(s)
  /\ script[s].call = "append"
  /\ LET call == script[s]
         answer == call.answer IN
     /\ history' = [history EXCEPT ![call.run] = Append(call.history, answer)]
     /\ answered' = answered \cup {answer}
     /\ lock' = IF Production THEN lock ELSE [lock EXCEPT ![call.run] = "free"]
  /\ Return(s)
  /\ UNCHANGED <<pageVars, runVars, data, context, clicks>>

\* resume_pipeline goes on only with a context that is paused.
Resume(s) ==
  /\ Shows(s)
  /\ Click
  /\ page[s].status = Paused
  /\ LET id == page[s].run IN
     /\ context[id] # None
     /\ context[id].status = Paused
     /\ Call(s, "resume", id)
  /\ UNCHANGED <<pageVars, runVars, storeVars, answered>>

ResumeData(s) ==
  /\ ~ Idle(s)
  /\ script[s].call = "resume"
  /\ LET call == script[s] IN
     \E status \in Resolved :
       LET artifact == [context[call.run] EXCEPT !.export = s, !.status = status]
       IN /\ data' = [data EXCEPT ![call.run] = artifact]
          /\ script' = [script EXCEPT ![s].call = "export", ![s].data = artifact]
  /\ UNCHANGED <<pageVars, runVars, context, history, lock, clicks, answered>>

ResumeContext(s) ==
  /\ ~ Idle(s)
  /\ script[s].call = "export"
  /\ LET call == script[s] IN
     /\ context' = [context EXCEPT ![call.run] = call.data]
     /\ Perform(s, [status |-> call.data.status, context |-> call.data, data |-> call.data],
                <<"status", "context", "data">>)
  /\ Return(s)
  /\ UNCHANGED <<runVars, data, history, lock, clicks, answered>>

-----------------------------------------------------------------------------
Proceed(s) ==
  Loaded(s) \/ ReadHistory(s) \/ AppendAnswer(s)
  \/ ResumeData(s) \/ ResumeContext(s)

Rerun(s) == Drain(s) \/ Launch(s)
Work(n) == ExportData(n) \/ ExportContext(n) \/ Refuse(n) \/ Raise(n)

Next ==
  \/ \E s \in Sessions : Rerun(s) \/ Proceed(s) \/ Start(s) \/ Reload(s) \/ Load(s)
                         \/ Ask(s) \/ Resume(s)
  \/ \E n \in Runs : Work(n)

Spec == Init /\ [][Next]_vars

\* The live view reruns the script by itself; a thread and a call go on.
FairSpec ==
  /\ Spec
  /\ \A s \in Sessions : WF_vars(Rerun(s)) /\ WF_vars(Proceed(s))
  /\ \A n \in Runs : WF_vars(Work(n))

-----------------------------------------------------------------------------
(* What a session may rely on.                                              *)

\* No two threads took the same id.
Distinct ==
  \A m, n \in Runs : \A i \in DOMAIN launched[m], j \in DOMAIN launched[n] :
    launched[m][i] = launched[n][j] => m = n /\ i = j
Undisturbed == {s \in Sessions : abandoned[s] = 0}

\* What a page shows under a run id is of that run, data and context and status
\* alike, however it came there, as long as no two runs began in the same second
\* and no script of the page was abandoned.
ShownIsOneRun ==
  Distinct =>
    \A s \in Undisturbed :
      page[s].done /\ page[s].run # 0 =>
        /\ page[s].data.run = page[s].run
        /\ page[s].context.run = page[s].run
        /\ page[s].context.by = page[s].data.by
        /\ page[s].status = page[s].context.status

\* A page that is about to start a thread has a queue that no thread was started
\* for, unless two scripts of it were abandoned: one after "running" was reset
\* and before the old queue was dropped, and the next one, which begins a run,
\* before it got its own.  A page that waits has a queue, of its own.
OneThreadPerStart ==
  /\ \A s \in Sessions :
       Live(s) /\ ~ page[s].started /\ page[s].queue # 0 =>
         launched[page[s].queue] = <<>> \/ abandoned[s] > 1
  /\ \A s, r \in Sessions : page[s].queue # 0 /\ page[s].queue = page[r].queue => s = r
  /\ \A s \in Undisturbed : Live(s) => page[s].queue # 0

\* Every state has its type, and a click starts one thread.
StartsAreSingle == TypeOK /\ OneThreadPerStart

\* An answer that was returned stays in the history of its run, once, whoever
\* asks at the same time.
AnswersAreKept ==
  \A answer \in answered :
    Cardinality({k \in DOMAIN history[answer.run] : history[answer.run][k] = answer}) = 1

Busy(s) == page[s].running \/ script[s] # None

\* A page that waits for a run comes to show its end, and one that waits for a
\* call for its return, unless a script of it was abandoned.
SessionsGoOn == \A s \in Sessions : Busy(s) ~> ~ Busy(s) \/ s \notin Undisturbed
=============================================================================
