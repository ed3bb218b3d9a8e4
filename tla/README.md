# A verification project for the Liquisto meeting-intelligence pipeline

The program (`src/src`) takes a company name and a web domain, lets four
departments of language-model agents research it, and turns their packages into
a briefing for a customer meeting. The agents are free to do nearly anything:
what makes a run trustworthy is the deterministic code around them, which
decides what a tool call may change, which result counts as accepted, what
depends on what, what is stored and learned, and how a run ends. This project
models that code in TLA+, checks the models with TLC on small instances and proves
the safety properties of its spine with TLAPS for every value of the constants.

Contents: 1 inventory, 2 how the modules fit together, 3 the modules and the code,
4 the runs, 5 disagreements between code and documentation, 6 the proofs, 7 what is
left out.

## 1 Inventory

Paths are relative to `src/src` unless they start with another directory of `src`.

| Part | Code | State it keeps | Module |
|---|---|---|---|
| Department group chat | `agents/lead.py`, `agents/critic.py`, `agents/judge.py`, `orchestration/contracts.py`, `orchestration/department_runtime.py` | `DepartmentRunState`: attempts, artifacts, reviews and decisions per task; the completed package | `DepartmentRun` |
| Speaker selection | `orchestration/speaker_selector.py` | text turns per speaker | `GroupChat` |
| Research worker | `agents/worker.py`, `orchestration/runtime_agents.py`, `tools/*` | the run's search and page cache, the section's payload | `ResearchWorker` |
| Supervisor loop | `orchestration/supervisor_loop.py`, `agents/supervisor.py`, `orchestration/resolution_controller.py`, `orchestration/task_router.py` | `RunContext`: active tasks, backlog, answer matrix, packages, resolution | `SupervisorLoop` |
| Short-term memory | `memory/short_term_store.py`, `memory/models.py` | facts, packets, reports, reviews, packages, usage | `WorkingSets` |
| Intake and Step-1 brief | `domain/intake.py`, `research/normalize.py`, `research/fetch.py`, `research/extract.py`, `agents/supervisor.py`, `domain/briefing.py` | none: a pipeline of conversions | `IntakeBrief` |
| Start of a run and handoff | `pipeline_runner.py`, `orchestration/step1_handoff.py`, `agents/runtime_factory.py`, `storage/*` | the run's row, the first checkpoint, the handoff | `Briefing` |
| Pipeline run, pause and resume | `pipeline_runner.py`, `app/use_cases.py`, `orchestration/meeting_readiness.py`, `orchestration/follow_up.py`, `exporters/json_export.py`, `storage/*` | run status, resolution state, checkpoints, six exported artifacts | `RunLifecycle` |
| Synthesis | `agents/synthesis_department.py`, `orchestration/synthesis.py` | the chat's finalized result; the readiness record | `Synthesis` |
| Runtime step bus | `orchestration/step_bus.py`, `runtime_step.py`, `otel_step_consumer.py` | a sequence counter, the trace and its positions, the root span | `StepBus` |
| Long-term memory | `memory/consolidation.py`, `memory/policies.py`, `memory/retrieval.py`, `memory/long_term_store.py`, `storage/runtime_stores.py` | patterns with scores, in a locked file or in a table | `ProcessMemory` |
| Research page | `ui/pages/recherche.py` (in `src/ui`), `orchestration/follow_up.py`, `storage/run_artifacts.py` | a browser session's state, worker threads and queues, follow-up histories | `UserSession` |
| Memory service | `cloudflare/maip-memory-worker` | rows, objects, vectors in three services | `MemoryWorker` |
| The rest | report writing, schemas, accounting, automation | none, or none that is read back | section 7 |

**How they interact.** The page starts `run_pipeline` in a thread and waits for an
event in a queue. The run checks the intake, retrieves what earlier runs learned,
fetches the homepage, makes the brief and stores it with a handoff that allows or
refuses research. Then `run_supervisor_loop` hands each parallel department a
*working set* of the memory store and runs it in a thread pool; a department's lead
calls the worker, which searches through one cache for all of them, and the critic
and the judge, and returns a package. The main thread takes the futures in
completion order, admits each package and records what became of its tasks in four
places, then merges the working sets in canonical order; the sequential departments
share the main store. The classification of the round decides whether an auto-close
pass runs, after which synthesis, readiness gate, consolidation of what was learned,
pause or export follow. A paused run lives only in its exported files until a page
resumes it. All of them emit steps through one `StepEmitter`.

**What is hard.** (1) Tool calls come in any order a model likes, several in one
message; the guards of each tool must hold the promises together. (2) Departments
run concurrently, are reviewed in completion order and merged in canonical order,
and share a cache and an emitter without a lock around a whole operation. (3) The
same fact is written by different actors into several records at different times.
(4) Workers, departments, budgets and round limits may cut anything short.
(5) Phases, checkpoints, rows, patterns and artifacts are written one by one, with no
transaction around them, by processes that may die, and read by others meanwhile.
(6) A page is a script that any click abandons half-way.

**What makes each part correct** is stated with the properties in section 4.
`PROJECT.json` lists every hazard at its line, with the properties that cover it or
the reason why none does.

## 2 How the modules fit together

```
 UserSession ......... starts, loads, resumes, asks            (the environment of a run)
   RunLifecycle ...... a run, its artifacts, its resumes       implements RunOutcome
     Briefing ........ its start in detail                     on IntakeBrief
     SupervisorLoop .. its first round                         on DepartmentContract, Packages
       DepartmentRun . one department's chat                   implements DepartmentContract
         ResearchWorker  one department's worker, and the cache it shares
       WorkingSets ... the stores those threads and the loop write
     Synthesis ....... its synthesis chat and assessment       on GroupChat, Packages
     ProcessMemory ... what it reads from and leaves to other runs
   StepBus ........... the trace all of them write
 MemoryWorker ........ a service of its own
```

A line is checked against its neighbours through what they share: `DepartmentRun`
implements `DepartmentContract`, and `SupervisorLoop` is built on its set of possible
results (`Promised`) and on nothing else of the chat. `Synthesis` shows that every
assessment it makes is one of `Readiness` (`Packages`), and `RunLifecycle` takes any
record of that set. `Classified` and `MatrixStatus` are one definition for loop and
lifecycle. `RunLifecycle` implements `RunOutcome`, which says what a reader of the
stored run may see. Where a module takes another's part by its result, it takes every
result that the other can produce, and more.

The order of work was from the inside out: the department chat, the loop, the
lifecycle; then what they use (worker, stores, step bus, synthesis, brief), then
what uses them (pages, long-term memory, the memory service). What could come next:
the Postgres stores as SQL transactions (today a single step each), and a composition
of `UserSession` with `RunLifecycle` itself instead of its outcomes.

## 3 The modules and the code

`map` in `PROJECT.json` gives the lines of each definition. Two general
abstractions: text (facts, reasons, questions to the user) is left out where no
decision reads it; what a language model, a search service or a page returns is a
nondeterministic choice over everything the code accepts.

**`Packages`** holds what several modules agree on: statuses of `contracts.py`, the
set `Promised` of possible department results, the Supervisor's pure rules `Admit`
(`accept_department_package`) and `MatrixStatus` (`matrix_status_for_task_status`), the
classification of a round, and the set `Readiness` of possible assessments.

**`DepartmentContract`** is the abstract specification of a department: nothing is
delivered, then one promised result is.

**`DepartmentRun`** is one group chat.

| TLA+ | Code |
|---|---|
| `attempts`, `artifacts`, `review`, `decision` | `DepartmentRunState`; of the review and decision histories only the latest entry is kept, the only one any guard reads |
| `blockedFinalizeAttempts`, `failures`, `package`, `memoryStatus` | the closure counters of `run`, `tool_errors`, `_completed_package`, `task_statuses` of the department's store |
| `ResearchBlocked`, `ResearchExecute`, `ResearchRetryLimit` | the branches of `run_research` that change state: dependency guard, duplicate and retry policy, worker call (a report or an exception) |
| `ReviewResearch`, `JudgeDecision` | `review_research` with `mark_critic_review`; `judge_decision` with its invented review |
| `FinalizeBlocked`, `FinalizePackage` | `finalize_package`: premature calls with auto-recovery; inline Critic and Judge, package, policy gate |
| `EndChat`, `MaxRoundHit` | TERMINATE noticed; `max_round` and `_build_fallback_package` |

A report is a record of the three things the Critic and the dependency guard read
from a payload: how many core rules it passes, whether it passes all rules, whether
it has facts. The order of speakers is not part of this module: the department's
selector excludes no order of tool calls, so the properties must hold for each.

**`GroupChat`** is the selector itself: who speaks after which message, the loop guard
on text turns. `Synthesis` uses it; in the department's chat it adds nothing.

**`ResearchWorker`** is `worker.run` over the calls of one department, with the lead's
`suggest_refined_queries` and its record of a report.

| TLA+ | Code |
|---|---|
| `Start`, `Search`, `FetchPages` | the queries of a task, each looked up in the cache, sent twice at most and stored, whatever came; the pages of the first results, each fetched once |
| `LlmSynthesis`, `FallbackSynthesis` | the model's update, questions and cited sources, or what the fallback builds when there is no model or it fails |
| `Completed` (`Bridged`, `Extracted`, `Screening`) | the bridges, extractions and the peer screen that follow |
| `Merge`, `Salvage`, `MergedSources` | the merge into the section's payload, its validation, and what a failed validation leaves |
| `Record`, `Fail`, `Refine` | the lead's side of a report, an exception, a refined query |
| `AskElsewhere`, `AnswerElsewhere`, `PageElsewhere` | the worker of the other parallel department on the same cache: looks, asks, stores, in separate steps |

Of a field only its standing is kept: absent, a default, a value, or of a type that the
schema refuses. What an answer or a page says is any of these.

**`SupervisorLoop`** is the first round.

| TLA+ | Code |
|---|---|
| `future`, `reviewed` | the futures of the pool, and the order in which `as_completed` yielded them |
| `runStatus`, `memory`, `matrix`, `backlog`, `packages` | `active_tasks`, `task_statuses`, `answer_matrix`, `completed_backlog`, `department_packages` |
| `facts` | the order of list fields of the main store, one entry per department |
| `Complete`, `Review`, `ReviewRaised`, `Drain` | a thread ends; the body of the loop over the futures; `future.result()` raising; the pool's exit |
| `Merge` | the loop over `merge_from` in canonical order |
| `StartSequential`, `FinishSequential`, `RaiseSequential`, `NextDepartment` | the loop over the sequential departments: assignment, run conditions, run, review, token budget |
| `Classify` | `ResolutionController.classify` |

The typed gaps a package lists, and the moment the token cap is reached, are left
open. The structured answers applied before a review concern the questions of the same
tasks, which the review rewrites with the same status in the same step. The branch for
a batch of a single department is excluded by an assumption: every runtime is built
with both parallel departments.

**`WorkingSets`** is the memory store in the same round, as data: `Empty`, `Seeded`,
`Ingested`, `Marked`, `Stored`, `DeltaFrom`, `MergedFrom`, `Exported` (`snapshot`) and
`FromSnapshot` are the operations of `ShortTermMemoryStore` on the lists a reader
counts (facts for all lists compared by content; packets for those compared by id, of
which only matters how often each is there), and `Research`, `Review`, `HandIn`, `Abort`,
`Complete`, `Merge`, `Follow`, `Skip`, `Close`, `Reload` are who calls them: a thread on
its working set, the main thread on the main store, an export and the readers after it.

**`IntakeBrief`** computes what Step 1 makes of an intake and a homepage: the checks in
their order with their codes, the classes of identity, redirect and reachability, the
gaps, and the brief. Names and titles are sets of words, a page is what the brief can
tell apart of it. **`Briefing`** is `run_pipeline` from its call to the start of the
departments, one action per call out of the process (`Validate` ... `Decide`), each of
which may fail; `Write`, `Rewrite` are the two writes of the first checkpoint, `Fail`
the error result with its export.

**`RunOutcome`** is the abstract specification of a run as the world sees it, which
is through what is stored: nothing, then a final status, a pause or a failure; a pause
is decided by a resume that found the run paused; a failure is final, and only happens
before anybody resumes.

**`RunLifecycle`** is one run of `run_pipeline` and any number of calls of
`resume_pipeline` on what it left.

| TLA+ | Code |
|---|---|
| `pc` | where each call is; in the run, the phases of `_record_phase` |
| `ctx`, `data` | the `RunContext` and `pipeline_data` of each call, cut to what the gate, the pause and the artifacts read |
| `gaps`, `open` | the public gap candidates of the classification, and those no follow-up resolved |
| `error`, `learned` | what `_pipeline_error_result` records; whether patterns were stored |
| `checkpoints` | checkpoint files, or rows of `run_checkpoints` |
| `stored`, `next` | the artifacts of the run directory or the rows of `run_artifacts`, and the one `export_run` writes next |
| `Reject`, `Initialize`, `BuildBrief`, `FirstPass`, `AutoClose`, `Synthesize`, `Finalize`, `Report`, `Consolidate` | the phases of `run_pipeline`, each up to and with its checkpoint |
| `Checkpointed`, `Fail`, `Raise` | `_write_checkpoint`, stored or failed; the handlers of `run_pipeline` and `_pipeline_error_result` |
| `WriteArtifact` | one write of `export_run`, by the run, by its error result or by a resume |
| `BeginResume`, `ApplySelections`, `RaiseResume` | `resume_pipeline`: load and pause test; selections, gate, status, checkpoint; an exception, which nobody catches |
| `Crash` | the process dies with every call in it |

The first round enters by its result: any matrix of the questions that departments
cover, any gaps, either answer to whether something blocks, and the bucket that
`Classified` gives them. Synthesis enters as `Readiness`. The artifacts `step_trace` and
`memory_snapshot` are one (nothing here reads either back); the PDFs, written last and
never fatally, are left out. A resume selects any subset of what the pause offered
and skips the rest, as the form does; a call that finds the run not paused has no effect
and is left out. Writes to the store are single steps: files are replaced atomically,
rows inserted in a transaction of their own.

**`Synthesis`** is the synthesis chat and what is made of it. `SpeakText`, `CallTools`,
`Execute` are the messages of the chat (a message may carry several tools),
`Deliver` its end with the finalized result or the fallback, `Raise` an exception;
`Assess` is the Supervisor's acceptance, the quality review and
`assess_research_readiness`: score, blockers, usable, discovery. The first round enters
as a record of the counts and flags the assessment reads, cut to those that departments
can produce together (`Consistent`).

**`StepBus`**: `Emit` numbers a step, `Guard` is the secret guard, `Look` and `Append_` are
the two halves of the trace consumer, `Root`, `Meter`, `Describe` the telemetry consumer
with a sink that may raise at each call (`Swallow`), `Resume` a new emitter on the
exported trace. `+=` on an attribute is one step, as CPython 3.12, which the image pins,
executes it (it switches threads at calls and backward jumps only).

**`ProcessMemory`**: several runs, each a sequence of reads (`RecallInitially`,
`RecallForBrief`, `RecallForRole`), an outcome (`Work`), and the patterns it admits, written
one by one: in the file profile under the lock (`Acquire`, `Truncate`, `Write`) with reads
that take none, in the database profile as one upsert (`Insert`). `OpenStore`/`CreateFile`
is the unlocked test and creation of the file, `Refuse` what the scrubbing keeps out,
`Die` the end of a process anywhere, in the middle of a write too.

**`UserSession`**: a page is its `session_state`, a script runs from the top and may be
abandoned at any assignment (`Perform`). `Start`/`Launch` begin a run in a thread,
`Drain` is the live view that takes the thread's event, `Load`, `Ask`, `Resume` call the
application layer, `Return` assigns what came back, `Reload` opens the page anew.
`ReadHistory`/`AppendAnswer` are the read and the write of a follow-up history, under the
file lock or without it (`Production`). A thread of a run writes `pipeline_data`, then
`run_context`, then posts its event.

**`MemoryWorker`**: each request is a sequence of awaited calls to a database, an object
store and a vector index. A request is received, validated (`Refuse`), and goes through
`LookUp`, `FindReview`, `Put`, `Register`, `InsertCandidate`, `InsertReview`, `UpsertVector`,
`InsertPattern`, `Promote`, `Search`, `SelectRows`, `Record`, `WriteEvent` as its route asks;
`Fail` is any of these raising or the request dying there.

## 4 The runs

One run per question. Every property of the passing runs has a mutant in the modules,
an operator with the change a plausible bug would make; with it TLC finds the property
violated.

| Run | Question | Instance | States |
|---|---|---|---|
| `department` | Do the chat's promises hold for every order of tool calls, and does it implement its contract? | the Buyer department | 5.3 million |
| `first_round` | Do the round's promises hold for every completion order, result and exception, and does it end? | all four departments | 124,000 |
| `first_round_qualification` | Does `contact_qualification` run once its condition holds, as a test expects? It does not (section 5). | as `first_round` | |
| `working_sets` | Does the store tell the truth about reports, evidence and reviews, whatever the threads do? | four departments, retries and second reviews | 357,000 |
| `research_worker` | Are answers, sources and traffic safe over repeated, failing and concurrent executions? | two tasks of one section, the other worker | 481,000 |
| `briefing` | Does the brief claim what the page supports, and do departments start on what is stored? | two words, two faults, all pages | 479,000 |
| `lifecycle` | Is what a run stores earned, resumable and checkpointed, with failures, crashes and two resumes at once, and does it implement `RunOutcome`? | two questions, two sessions | 851,000 |
| `synthesis` | Does the chat end in order, and is a readiness verdict earned? | eight messages; 97,000 chats and first rounds | 97,000 |
| `step_bus` | Does the trace keep its steps while three threads write it, and over a resume? | main and two departments | 139,000 |
| `process_memory` | Is what runs learn earned and kept, while others read, write and die? | two runs, four tasks, both profiles | 244,000 |
| `user_session` | Does a page show one run, start one thread, and come to an end? | two sessions, two runs | 896,000 |
| `memory_worker` | Are patterns reviewed and acknowledgements true, for concurrent requests that fail anywhere? | five requests | 3.5 million |

**What the properties say.**

- `department`. `AcceptedHasEvidence`: no task is packaged as accepted unless a report
  that passed all core rules was ingested for it. `CallsAreBounded`: a task that was
  never blocked is executed within its retry limit, and a premature `finalize_package`
  is paid for by a completed task or a failure of the worker. `ReviewsAreBinding`: the
  memory's status is that of the review in force, and an approval describes what is
  shipped. `PackageStable`: a second assembly changes nothing. `ImplementsContract`.
- `first_round`. `OneAccount`: the four records of a task agree up to an approval merged
  over the verdict, no task is forgotten, and no list depends on completion order.
  `CreditIsEarned`: admissions and answers rest on accepted tasks. `ContactsNeedBuyers`;
  `VerdictsStand`: no later review touches a recorded verdict; `LoopEnds`.
- `working_sets`. `StoreIsWhole`: the batch's reports arrive all or none, once, in
  canonical order; a packet is in the store once for its report and once for the
  package; payload, review and history tell one story. `ExportsAreStable`: reading and
  exporting the context again changes nothing.
- `research_worker`. `AnswersSurvive`: sound fields and all open questions reach the
  report whichever way an execution takes. `BoundedTraffic`: two requests a query and one
  fetch a page, and that again for a worker that looked at the same time. `SourcesStand`: no
  task and no citation pushes out a source that was found. `ExecutionsEnd`.
- `briefing`. `BriefIsHonest`; `StartsAreAccounted`: departments start on a stored
  handoff that allows it, a refused start leaves nothing behind and names a fault the
  intake has; `StartsEnd`.
- `lifecycle`. `ReadyIsEarned`: what is stored as meeting-ready has its assessment, its
  answers and a usable readiness behind it. `ResumesAreSafe`: a stored pause has what a
  resume reads, one that returned has decided, and no reader sees a run decided and still
  waiting. `RecordsAreBacked`: outcomes have the checkpoints of their phases, a failure
  names a stored one or the one that failed. `ImplementsOutcome`, `CallsEnd`.
- `synthesis`. `ChatIsOrderly`: nobody speaks after the result was stored, and the
  selector's loop guard is never needed. `VerdictIsEarned`: a ready run has an admitted
  and named Company and evidence that was accepted. `FailuresBlock`: no points outweigh
  a fallback, a rejected synthesis or a failed policy gate. `ChatEnds`.
- `step_bus`. `TraceIsSound`: numbers are unique per emitter, a published step (or a
  later one with its key) is in the trace once, one root span holds what was counted.
  `EmissionsEnd`.
- `process_memory`. `KnowledgeIsEarned`: a pattern comes from an accepted task, or from a
  meeting-ready run of which at most a quarter went wrong. `StoreIsSound`: what was
  reported as stored stays, but for writes that a crash cut. `RecallIsSound`: a role
  recalls what was written for it by a run that was over, and an empty-looking file does
  not take away what was found. `RunsEnd`: nobody waits for the lock for ever.
- `user_session`. `ShownIsOneRun`: status, data and context on a page are of the run it
  names. `StartsAreSingle`: a click starts one thread, on a queue of the page's own,
  until a second script of the page is abandoned. `AnswersAreKept`: a returned follow-up
  answer is in the history, once. `SessionsGoOn`: a page that waits comes to show an end.
- `memory_worker`. `PatternsAreReviewed`: a pattern has its object, its candidate and an
  accepted review, and is the only one of its candidate. `AcknowledgedIsDone`: what a
  response says has been done is, and a query returns active patterns only.

The type invariants of `DepartmentRun`, `SupervisorLoop`, `RunLifecycle`, `Briefing`,
`MemoryWorker`, `ProcessMemory`, `UserSession` and `WorkingSets` are theorems of their own.
The runs check those of the other modules, and the last three, as a conjunct of a property
(`ChatIsOrderly`, `AnswersSurvive`, `TraceIsSound`, `StoreIsSound`, `StartsAreSingle`,
`StoreIsWhole`).

**Bounds.** They are chosen so that each hazard can happen, and named in the modules.

- `department`: a task that depends on another department's task and one that depends
  on the first, i.e. a dependency the department cannot see and one it can; four kinds of
  report, the cases Critic, Judge and guard tell apart; `MaxTaskRetries = 2` (3 in
  `settings.py`) still allows a retry after a rejection; `AttemptBound = 3` is one more
  than the limit, so exceeding it would be seen; `FailureBound = 1`.
- `first_round`: the four departments in their order, with the tasks whose run conditions
  and questions interact. Results range over all promised ones.
- `working_sets`: two departments of a batch with a common fact, two sequential ones; one
  of each pair is retried and reviewed twice.
- `research_worker`: two tasks that share their queries, the homepage, a found URL and one
  that only the model cites for a section of two sources, so that something must give; one query and one page are
  shared with the other thread; two executions, the second on what the first left.
- `briefing`: names and titles of up to two words, so that they may be equal, overlap or
  differ; up to two faults of an intake, so that their order matters; both forms of the
  domain argument; every class of page; the database profile. The theorems cover the rest.
- `lifecycle`: a core question and one that synthesis answers and the gate exempts;
  `GapBound = 2` and `MaxQuestions = 1` (4 in the code) let the auto-close budget cut off a
  gap; `MinAnswered = 2`: all answers outweigh weak evidence, fewer do not. Two sessions
  resume. The profiles differ in the checkpoint of a resume only; the proofs cover both.
- `synthesis`: `MaxRound = 8` lets a chat go once round and be cut in the next; bundles of
  two tools; first rounds on both sides of every threshold of the assessment. The chat
  and the assessment meet in the finalized result, so the product is small.
- `step_bus`: the main thread emits before, beside and after the departments; one step has
  a secret; the resume repeats a key of the run and adds one.
- `process_memory`: four tasks, so that one failure is a quarter; outcomes on both sides of
  the rule; one process dies, anywhere; one pattern of an older version with a better
  score; `Limit = 1` makes every retrieval choose.
- `user_session`: four clicks and two abandoned scripts, five moves of both kinds
  together: it takes two abandoned scripts and three clicks to start a second thread on one
  queue. Two seconds in which two runs may begin (so that they may share an id). The file
  profile.
- `memory_worker`: one proposal, one review, two requests that may accept at once, one that
  reads; one failure, after any call.

**Symmetry** is not used: departments, tasks and questions differ, sessions and requests
are few, and most runs check liveness.

**Deadlock** is not checked: a chat that has ended, a round that is classified, a run that
is stored, a page that shows a result and a request that was answered stop.

**Fairness.** `LoopEnds`, `StartsEnd` assume `WF_vars(Next)`: one thread (for the loop, the
threads whose ends the main thread waits for) goes on, because every call has a timeout
and a chat has `max_round`. `CallsEnd` assumes it of the run and of each resume, which
are calls in threads that wait for nobody. `ChatEnds` and `ExecutionsEnd` assume it of the
chat and of the worker: sequential code; nothing is assumed of the other worker.
`EmissionsEnd` assumes it of each thread. `RunsEnd` assumes it of each run: the lock is
polled, and as every other run writes finitely often, weak fairness is enough to get it
at last. `SessionsGoOn` assumes it of each page's reruns (the live view reruns itself), of
the calls of a script and of the runs' threads. Nowhere is anything assumed of users,
models, exceptions or crashes. Nothing is assumed about a model's wish to finalize,
which is why `DepartmentRun` states the counting invariant `CallsAreBounded` instead of
a liveness property.

## 5 Disagreements between code and documentation

Shown by a run, with the lines quoted in `PROJECT.json`: *contact qualification*
(`supervisor_loop.py:484`): its condition is evaluated before the department that could
fulfil it, so it never runs, contrary to `tests/architecture/test_orchestration.py:894`.

Seen while modelling, without a run of their own. The properties above are stated so that
they hold nevertheless, and the models behave as the code does.

*Department chat*
- Cleared blocks (`lead.py:548`, "Re-check: if dependency is now satisfied, clear the block
  and re-run"): the blocked decision stays the latest, so a task re-run after its
  dependency arrived is packaged as blocked (`:1075`), with no open question.
- Degraded acceptance (`lead.py:912`): the Judge, called before any review, accepts with
  gaps a report that passed no core rule; `judge.py:9-10` asks for one.
- Research after a final decision (`lead.py:614`): executes the worker again, although
  `contracts.py:38` calls the states terminal. `AcceptedHasEvidence` and `PackageStable`
  hold all the same.
- Duplicates (`lead.py:501`): the dependency guard precedes the duplicate check (`:532`)
  and may put an empty artifact over approved research. `ReviewsAreBinding` therefore
  speaks of tasks that were never blocked.
- The guard against lost payload fields (`lead.py:657`) compares keys, and a validated payload
  has all of them: a field that goes back to its default is lost unnoticed.

*First round and memory store*
- Blocked tasks (`supervisor_loop.py:413`): the merge may put the Critic's "accepted" over
  the review's "blocked" (`short_term_store.py:328`), and the classification, which reads
  the store (`resolution_controller.py:134`), misses it; the comment at
  `short_term_store.py:321-322` keeps terminal statuses from "pending" only.
- Skipped tasks (`supervisor_loop.py:571`): in a department that ran, skipped tasks are
  recorded again as degraded.
- Assignment steps (`supervisor_loop.py:481`): those of Buyer and Contact name the tasks of
  a parallel department (a variable left over from an earlier loop).
- Merge conflicts (`short_term_store.py:333`): logged, where the docstring (`:299`) raises.
- Order: `merge_from` promises a deterministic result, but packets and gaps of reviewed
  packages enter in completion order (`supervisor_loop.py:141-145`). Facts and reports do not.
- Packets are in the store twice, with the package and with the report, so three
  high-confidence facts pass the threshold of five (`synthesis.py:1166-1179`).
- A failed round leaves packets of reviewed packages in the store, without their reports.

*Research worker*
- The cache (`worker.py:1074-1080`, `:1126-1131`) looks, asks and stores in separate steps:
  two threads may both ask, and the later answer replaces the earlier one, an empty one
  too. Failed fetches and empty batches are kept for the run.
- Salvage starts from the model's raw update: what the bridges added is lost, and the peer
  screen does not apply.
- A URL that only the model cites enters the sources unchecked while there is room.

*Start of a run*
- Redirects (`pipeline_runner.py:1030-1034`, `supervisor.py:35-37`, `:161`): the expected host
  is the text of a dataclass, so every reachable page is a `redirect_domain_mismatch` and
  the readiness classes "ready" and "ready with identity gaps" never occur, contrary to
  `docs/drawio/target_runtime_architecture.md:566-568`. The model has both forms of the
  argument.
- The submitted name is the first candidate of the identity (`extract.py:266-330`), so an
  unreachable homepage matches it.
- Blocked briefs (`step1_handoff.py:259`): allowed to route with gaps, where
  `domain/briefing.py:46` says that Step 2 must not run blindly.
- The second write of the first checkpoint (`pipeline_runner.py:1230`): when it fails the
  stored checkpoint allows the routing that the run refuses.
- A refused handoff (`pipeline_runner.py:2341-2349`): its error report is called with
  arguments the function does not have; the `TypeError` is exported and the error code
  lost. The database row of the run stays "running".

*Run, pause and resume*
- Gaps beyond the budget (`follow_up.py:509`): neither attempted nor remaining, so the gate
  does not hear of them and the run may be meeting-ready (`meeting_readiness.py:22-23`).
- Blocking failures (`meeting_readiness.py:84`): the bucket pauses or closes a run, but a
  blocking failure blocks nothing (`docs/drawio/target_runtime_architecture.md:749`).
- Two resumes (`pipeline_runner.py:889-890`): both pass the pause test and both decide.
- Failed runs (`pipeline_runner.py:2188`, `:770`): a run that fails during its export is
  stored as failed and, in its assessment, as meeting-ready.
- What a pause offers (`use_cases.py:328`): the list of the first round; synthesis may have
  answered some of it.
- The checkpoint of a failure (`pipeline_runner.py:181`) is named before it is written; that
  of a resume (`:983`) is reported as written and, in production, stored nowhere.
- A resume exports an empty message trace (`pipeline_runner.py:1000`) and updates neither
  usage nor budget.
- The follow-up's comment (`follow_up.py:160`) promises facts of the latest accepted
  attempt; the code takes the last one.

*Synthesis*
- A rejected section is an empty artifact whose missing name counts as a name
  (`synthesis.py:1645-1653`); the synthesis gate is what stops such a run.
- Any text with the end word ends the chat before `finalize_synthesis`; back requests are
  dropped by the fallback; two of the selector's guardrails are unreachable.

*Long-term memory*
- A file cut in the middle reads as an empty store (`long_term_store.py:41`), and the next
  upsert completes it as one; cut inside a character, it makes every later run fail when
  it starts. A load may read a file that another run has just truncated.
- Learning (`memory/policies.py:47`): from discovery-ready and blocked runs too, task by
  task, where `docs/drawio/target_runtime_architecture.md:657-658` says they do not contribute.
- The critic's heuristics match a department's prefix in the task key, so one department
  may learn from another's task.

*Pages*
- Run ids (`pipeline_runner.py:342`) have a resolution of one second: two runs begun within
  it share directory, row and history. `ShownIsOneRun` speaks of runs with ids of their own.
- The follow-up history in Postgres (`run_artifacts.py:111-126`) is read, appended to and
  written back without a lock, so one of two answers may be lost;
  `docs/en/privacy/data-classification-policy.md:90` promises append safety. The file is locked.
- A page whose script is abandoned between `running = False` and the end of its queue
  (`recherche.py:87-97`) keeps the queue; when the next start is abandoned before it makes
  one of its own, its thread posts to the old queue. `StartsAreSingle` says what it takes.
- An event taken off the queue by a script that is then abandoned is lost, and a page
  without a queue waits for ever. `SessionsGoOn` excepts such pages.

*Memory service* (`cloudflare/maip-memory-worker/src/index.ts`)
- A later rejection does not stop the acceptance of a candidate with an accepted review
  (`:498-505`).
- The vector is written before the row (`:527-559`): a failure in between leaves a vector
  that no row can rebuild, contrary to `docs/runtime/app_memory_target_architecture.md`; a failure after
  the row leaves the candidate proposed for ever, as the retry violates a unique key.

## 6 The proofs

Eight modules prove every safety property that a run checks, for all constants that satisfy the named assumptions: any tasks, dependencies, retry limit and policy; any set of reports in which
approval implies all core rules (the Critic approves only a payload without a failed
rule); any departments with disjoint tasks, any number of them parallel (more than one)
and sequential, any run conditions (none in the parallel batch), questions and policies;
any gaps, budgets and thresholds, any number of resumes, either storage profile; any words,
faults and questions; any number of requests and failures; any members of the synthesis
chat and any first round they assess; any tasks, queries, pages, limits and lists of
sources of the two workers; any threads and scripts of steps; any number of runs that
learn, tasks and deaths; any sessions, runs, clicks and abandoned scripts; any batch with
tasks, facts, reports and reviews to any bound. Where two components are proved in one
module, one of them gives its `Init`, `Next`, `TypeOK` and variable tuple names of its own,
so that the module can extend both.

*`DepartmentRunProofs`.* `TypeCorrect` is inductive by itself and used everywhere.
- `AcceptanceIsEarned`: `AcceptedHasEvidence` speaks of the package only. `Evidence`
  follows the claim back: an approved report, an approved review, a review with all
  core rules, a decision "accepted" each imply that a report with all core rules is in
  the history. Artifacts are only appended (`StepAppends`), so evidence stays.
- `CallsBounded` (from `RetriesAreBounded`, `FinalizeRecovers`): `Recorded` says that a
  blocked decision leaves a blocked artifact behind and that a review has an artifact;
  outside blocks a second execution then needs a rejected review and a free retry. The
  recovery is shown by counting: `IncompleteShrinks` removes an element from the set of
  incomplete tasks (finite-set lemmas of the library).
- `ReviewsBind` (from `ApprovalsAreCurrent`, `MemoryIsTheCritics`): with `Recorded` and
  `Evidence`.
- `PackageIsStable`: `Assembled` says that after the first assembly every task has a
  stored decision and the package is what these decide.
- `ChatKeepsContract`: the refinement. `Deliverable` says that evidence has been
  ingested by the memory store and that a passed gate has its accepted task; hence
  what an ended chat delivers is promised, and every step maps to a delivery or a
  stutter.

*`SupervisorLoopProofs`.* `Shape` ties the phase to the variables of each phase (the index
of the sequential department, who is reviewed, who runs); type correctness needs it, as
`Review` reads a future only some phases guarantee.
- `VerdictsAreFinal`: `Untouched` says that what has not been reviewed carries no
  verdict, so a review can only touch what is its own.
- `AccountIsOne` (from `RecordsAgree`, `NothingIsForgotten`, `FactsAreCanonical`) and
  `CreditsAreEarned` (from `AdmissionsAreEarned`, `AnsweredMeansAccepted`): one lemma about
  `Record` (`RecordSettles`) and one about `AdmitPackage`, then a case per action;
  `Worked` says that every department before the index is settled, `InOrder` that no
  recorded department is ahead of the index.
- `ContactsFollowBuyers`: `ConditionHeld` adds the tasks that run now.

*`RunLifecycleProofs`.* No property is inductive: each speaks of what is stored, and
follows from what the writers know. `Inductive` proves one invariant for all:
- `Shape`: which call has a context, data and an export under way, by its `pc`;
- `RunHolds`: what the run's context claims at each phase, and which
  artifacts its export has already written;
- `ResumeHolds(r)`: the same for each resume, whose context is a decided copy of what was
  stored while it was paused;
- `Written`: the checkpoints behind each phase; that of the auto-close pass
  depends on the bucket, which a resume changes, hence the conjunct on the run's own context;
- `StoredIsSound`: what is stored as meeting-ready is earned, a pause has its
  pipeline data, a final context has its metadata.

`FailuresAreBacked` puts `Backed` on top of it: where the run is, which checkpoints it
may name and what it has learned. A step of one caller leaves the claims of the others
alone, since a context belongs to its call and an artifact is replaced whole: the proof
has one lemma per action and one step per conjunct it touches. `ReadinessIsEarned`,
`ResumesSafe` and `RecordsBacked` follow. `RunKeepsPromise` maps every action to a step of
`RunOutcome` or a stutter: the fourth write of an export settles, fails or decides.

*`RecordProofs`: `Briefing`.* `BriefHonest` rests on `HonestBrief`, a lemma about the brief of any
name and page, and on the invariant that a context's brief is the one of the page that
was fetched. `StartsAccounted` needs `StageFacts`, what is stored, announced and written at each
stage; `WriteFacts` says what a checkpoint write, stored or failed, leaves.

*`RecordProofs`: `StepBus`.* `TraceSound` needs four facts (`BusInductive`). `Running`: a
thread that emits has waited for what its step depends on. `Numbered`: what is published
has a number its emitter has given, and the step under way is the latest with its key.
`Placed`: the positions may be wrong for a key whose append was overtaken by another
thread's, and the proof does not claim otherwise; they are right for every key that is
still to be looked up (`Aimed`), because only the main thread uses a key again, and no
department is under way when it does (`RepetitionAssumption`, read off the steps of
`supervisor_loop.py:208-262`; `NobodyBetween`). `Counted`: what the telemetry has counted,
plus the threads on their way to it, is at most what was published. After a resume the
positions are those of the trace it was given (`PositionsFacts`; the greatest index of a
key exists by well-foundedness).

*`MemoryProofs`: `MemoryWorker`.* `Backed` says what rows and objects owe to each other,
`Progress` what a request at each of its calls has found and done; since other requests
only ever add rows, what one has found stays (`OthersProgress`). `PatternsReviewed` and
`Acknowledged` are read off.

*`MemoryProofs`: `WorkingSets`.* `StoreWhole` speaks of the main store; what makes it true is
in the working sets, so that `StoreInductive` says of them what will be true of the main
store once they are merged. `Whole(s, D)`: a store tells one story and has reports on
tasks in `D` only; every working set is whole for its department (`BatchWhole`),
and one lemma per operation (`IngestedWhole`, `MarkedWhole`, `StoredWhole`, `AppliedWhole`,
`MergedWhole`, `ReloadedWhole`) says that it leaves a store so. `MergedWhole` is where the
disjoint tasks are used: stores with reports on different tasks neither overwrite each
other's payload nor count a packet twice. `Accounted` counts a packet by its report and by
the reviewed packages that hold it, over main store and working sets; `Gone` says whom the
main thread has reviewed, without which a package could still change after it was counted;
`Arrived` says where the reports of the batch are in each stage. `Merge` is one step for the
whole batch: `MergedSteps` and `BatchSteps` take its recursion apart, and the induction over
the departments merged so far shows that the store is whole and accounted for at each of
them. `ExportsStable` comes from `DistinctOnce`: a list without repetition is its own
export. The list operators are recursive functions, and the inductions are over the length
of the list, with `SetInduction` as in `ResearchWorker` below.

*`AgentProofs`: `Synthesis`.* `ChatOrderly` needs `Routed`: a member speaks only after a text of the
lead, and that text has cleared the counters, so no member ever comes to a second text.
`Judged` keeps the verdict equal to what `Assessed` makes of the recorded synthesis and
first round, and the synthesis one that `run` returns. `VerdictEarned` and `FailureBlocks`
are then facts about `Assessed`; the one that needs arithmetic is `DegradedAlone`: without
an accepted task and an admitted synthesis, degraded tasks leave the evidence health low,
since three of them count at most.

*`AgentProofs`: `ResearchWorker`.* `TrafficBounded` rests on `Traffic`: what is not
in the cache has cost nothing, what the other worker is about to store has cost one round
of requests at most, everything else two. `AnswersSurviving` rests on `Reported`: what
each way to a report (merged, salvaged, returned as it was) may do to the payload.
`SourcesStanding` is about lists: `Extended`, the union that keeps the order and drops
repetitions, is a recursive function over the list, and `ExtendedFacts` (the first list
stays a prefix, the elements are those of both, nothing comes twice) is proved by
induction over the list's length. The library's induction theorems cannot be used for
that; `SetInduction` says it of a set instead (a set of naturals that has 0 and is
closed under +1 is `Nat`) and follows from `WFMin`. `MergedSourcesFacts` then says that
a citation is cut off before any source that research found.

*`ProcessMemoryProofs`.* Three arguments. `Mutex`: the one run that rewrites the file holds
the lock. `Kept`: what a run is about to write covers every name that was reported as
stored, unless a cut write or a recreated file has spoiled the store; hence `StoreSound`.
`Learnt`: a pattern was in the seed or is made of an outcome that its run does not change
any more; with `Recalls`, what a role was given, `KnowledgeEarned` and `RecallSound`
follow. They hold for both profiles: `Opened` and `Mutex` keep the file's protocol to the
one that has a file.

*`UserSessionProofs`.* `Sound` collects what each part knows. `ThreadHolds`: a thread's id
and artifact agree with its stage, and the event in its queue with both. `StoreHolds`: an
exported artifact is one that a run or a resume made (`Genuine`). `CallHolds`: what a slow
call has read is still what it claims. `PageHolds`: a page without an abandoned script shows
one run, and keeps its queue only while it waits. `ShownOneRun` and `StartsSingle` are read
off. `AnswersKept` has an invariant of its own, `Kept`: whoever is about to append holds the
lock and has read the latest history, and no answer is on its way twice. It is a
theorem of the file profile (`~ Production`); in Postgres the property fails (section 5).

**Only model-checked**: the liveness properties (`LoopEnds`, `CallsEnd`, `ChatEnds`,
`ExecutionsEnd`, `EmissionsEnd`, `RunsEnd`, `SessionsGoOn`, `StartsEnd`), which are outside
the prover's reach: they need fairness and ENABLED.

## 7 What is not modelled

Of the modelled parts: the branch for a batch of one department, `run_followup` (it has no
caller), hashes and sequence numbers of checkpoints, budgets and usage figures of a run
other than the store's totals, the building of briefing assets, playbooks and texts in the
synthesis, the attributes of a span, the SQL behind the Postgres stores (each call of
them is one step), `memory/backfill.py`, the sign-in and the admin pages. Two more:
- what a text says: which fields a bridge or an extraction fills, which queries come out of
  a brief, is free in the models;
- `EventLogStepConsumer`, which is registered nowhere.

Parts without a module:
- report writing, dashboard and PDF export: formatting of data that nothing reads back;
- assurance shadow, usage accounting, pricing: observability that no decision reads;
- the patterns of secret guard and fetch guard: checks on one value at a time (what
  happens to a value they refuse is modelled where it is met);
- agent profiles, settings and schemas: constants and classes;
- repository automation (`.codex`, `scripts`): not part of the program.
