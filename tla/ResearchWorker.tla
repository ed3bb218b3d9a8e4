--------------------------- MODULE ResearchWorker ---------------------------
(***************************************************************************)
(* The research worker of one department (agents/worker.py) over a run: its  *)
(* searches and page fetches with the caches it shares with the worker of the  *)
(* other department of the batch, which runs in another thread, the             *)
(* synthesis by a language model with its fallback, the bridges that complete   *)
(* and screen its updates, the merge into the section's payload and what a      *)
(* failed validation leaves of it, and the lead's record of the report         *)
(* (run_research and suggest_refined_queries in agents/lead.py).               *)
(*                                                                          *)
(* Queries, URLs and fields are identities; of a field only its standing is    *)
(* kept: absent from an update, a default ("n/v" or an empty list), a value,    *)
(* or of a type that the section's schema refuses.                           *)
(***************************************************************************)
EXTENDS Naturals, Sequences, FiniteSets, SequencesExt, FiniteSetsExt

CONSTANTS
  Tasks,                        \* the department's tasks, all on one section
  BaseQueries, RefinedQueries,  \* per task: its strategy, and the method_refinement variant
  MaxQueries, MaxResults,       \* per task: _QUERY_LIMITS
  Fields,                       \* of the section
  Own, Briefed,                 \* the fields a task fills; those the brief fills
  Screened,                     \* fields whose names must not be those of peers
  Urls, Invented,               \* what a search may cite, and what no search did
  BriefSources,                 \* the sources of the Supervisor's brief
  MaxSources,                   \* of a payload
  MaxPages,                     \* results whose pages are fetched
  Shared,                       \* queries and pages the other worker asks for as well
  CallBound                     \* model bound: executions of the worker

Queries == UNION {ToSet(BaseQueries[t]) \cup ToSet(RefinedQueries[t]) : t \in Tasks}

NoTask == "none"
NoNote == "none"
Nil == [none |-> TRUE]
Nothing == "nothing"

ASSUME WorkerAssumption ==
  /\ \A t \in Tasks : /\ {BaseQueries[t], RefinedQueries[t]} \subseteq Seq(STRING) \ {<<>>}
                      /\ MaxQueries[t] \in Nat \ {0} /\ MaxResults[t] \in Nat \ {0}
                      /\ Own[t] \subseteq Fields
  /\ Briefed \subseteq Fields /\ Screened \subseteq Fields
  /\ BriefSources \in Seq(STRING) /\ Len(BriefSources) <= MaxSources
  /\ (Urls \cup ToSet(BriefSources)) \cap Invented = {}
  /\ MaxSources \in Nat /\ MaxPages \in Nat /\ CallBound \in Nat
  /\ Shared \subseteq Queries \cup Urls /\ Nothing \notin Queries \cup Urls

VARIABLES
  at,         \* "idle", "search", "synthesis", "merge" or "report": where run() is
  task,       \* the task it runs for
  pending,    \* the queries it has not come to
  results,    \* URLs found for the task
  excerpts,   \* some of their pages has text
  answer,     \* what the model, or the fallback, made of them
  note,       \* fallback_note: what failed, or NoNote
  cache,      \* SearchCache "__search__": a batch per query ever searched
  requests,   \* requests sent to the search service, per query, by either worker
  pages,      \* SearchCache "__pages__": what came of each page
  fetches,    \* fetches of a page, per URL, by either worker
  elsewhere,  \* what the other worker is asking for, having found it in no cache
  payload,    \* current_payload of the department's run
  refined,    \* tasks with stored query overrides
  report,     \* what run() returns, None before
  executions  \* counted for CallBound

callVars == <<at, task, pending, results, excerpts, answer, note, report>>
pageVars == <<pages, fetches>>
workerVars == <<cache, requests, pageVars, elsewhere>>
leadVars == <<payload, refined, executions>>
allVars == <<callVars, workerVars, leadVars>>

\* The first n elements, or all.
Cut(s, n) == SubSeq(s, 1, Min({n, Len(s)}))

\* The elements of t that s does not have, in order, behind s.
Extended(s, t) ==
  LET upTo[n \in 0 .. Len(t)] ==
        IF n = 0 THEN s
        ELSE IF Contains(upTo[n - 1], t[n]) THEN upTo[n - 1] ELSE Append(upTo[n - 1], t[n])
  IN upTo[Len(t)]

\* resolve_queries: stored overrides replace the task's strategy for good.
QueriesOf(t) == IF t \in refined THEN RefinedQueries[t] ELSE BaseQueries[t]

WorkerInit ==
  /\ at = "idle" /\ task = NoTask
  /\ pending = <<>> /\ results = <<>> /\ excerpts = FALSE
  /\ answer = Nil /\ note = NoNote
  /\ cache = [q \in {} |-> <<>>]
  /\ requests = [q \in Queries |-> 0]
  /\ pages = [u \in Urls |-> "unseen"]
  /\ fetches = [u \in Urls |-> 0]
  /\ elsewhere = Nothing
  /\ payload = [fields |-> [f \in Fields |-> "default"], sources |-> <<>>]
  /\ refined = {} /\ report = Nil /\ executions = 0

\* suggest_refined_queries: the specialist's variant is stored, never withdrawn.  (To store
\* the strategy itself changes nothing.)
Refine(t) ==
  /\ at = "idle" /\ RefinedQueries[t] # BaseQueries[t]
  /\ refined' = refined \cup {t}
  /\ UNCHANGED <<callVars, workerVars, payload, executions>>

\* run_research calls the worker.
Start(t) ==
  /\ at = "idle" /\ executions < CallBound
  /\ at' = "search" /\ task' = t
  /\ pending' = Cut(QueriesOf(t), MaxQueries[t])
  /\ results' = <<>> /\ answer' = Nil /\ note' = NoNote
  /\ executions' = executions + 1
  /\ UNCHANGED <<excerpts, report, workerVars, payload, refined>>

\* _search_queries ends with the list, or at its limit of results.
SearchOver == pending = <<>> \/ Len(results) >= MaxResults[task]

\* perform_search: distinct citations, none when it failed (no failure is told from
\* an empty answer).
Batches(n) == {b \in UNION {[1 .. k -> Urls] : k \in 0 .. n} : IsInjective(b)}

Kept(q, batch) == [x \in DOMAIN cache \cup {q} |-> IF x = q THEN batch ELSE cache[x]]

\* A batch from the cache, or from the service, which is asked once more when the
\* first answer was empty.
Answers(q) ==
  IF q \in DOMAIN cache THEN {[batch |-> cache[q], sent |-> 0]}
  ELSE {[batch |-> b, sent |-> n] : b \in Batches(MaxResults[task]) \ {<<>>}, n \in {1, 2}}
         \cup {[batch |-> <<>>, sent |-> 2]}

\* Mutant: an empty batch is not kept.
SearchUncached ==
  /\ at = "search" /\ ~ SearchOver
  /\ LET q == Head(pending)
     IN \E a \in Answers(q) :
          /\ cache' = IF a.batch = <<>> THEN cache ELSE Kept(q, a.batch)
          /\ requests' = [requests EXCEPT ![q] = @ + a.sent]
          /\ results' = Cut(Extended(results, a.batch), MaxResults[task])
  /\ pending' = Tail(pending)
  /\ UNCHANGED <<at, task, excerpts, answer, note, report, pageVars, elsewhere, leadVars>>

\* Mutant: a query without an answer is tried again after the others.
SearchPatiently ==
  /\ at = "search" /\ ~ SearchOver
  /\ LET q == Head(pending)
     IN \E a \in Answers(q) :
          /\ cache' = IF a.batch = <<>> THEN cache ELSE Kept(q, a.batch)
          /\ results' = Cut(Extended(results, a.batch), MaxResults[task])
          /\ pending' = IF a.batch = <<>> THEN Append(Tail(pending), q) ELSE Tail(pending)
  /\ UNCHANGED <<at, task, excerpts, answer, note, report, requests, pageVars, elsewhere, leadVars>>

\* One query of _search_queries.  Whatever came back is kept for the worker's life.
Search ==
  /\ at = "search" /\ ~ SearchOver
  /\ LET q == Head(pending)
     IN \E a \in Answers(q) :
          /\ cache' = Kept(q, a.batch)
          /\ requests' = [requests EXCEPT ![q] = @ + a.sent]
          /\ results' = Cut(Extended(results, a.batch), MaxResults[task])
  /\ pending' = Tail(pending)
  /\ UNCHANGED <<at, task, excerpts, answer, note, report, pageVars, elsewhere, leadVars>>

\* _fetch_supporting_pages: the first results, each page once in the worker's life,
\* be it that nothing could be read.
FetchPages ==
  /\ at = "search" /\ SearchOver
  /\ LET wanted == ToSet(Cut(results, MaxPages))
         unseen == {u \in wanted : pages[u] = "unseen"}
     IN /\ \E got \in [unseen -> {"text", "none"}] :
             pages' = [u \in Urls |-> IF u \in unseen THEN got[u] ELSE pages[u]]
        /\ fetches' = [u \in Urls |-> fetches[u] + IF u \in unseen THEN 1 ELSE 0]
        /\ excerpts' = (\E u \in wanted : pages'[u] = "text")
  /\ at' = "synthesis" /\ pending' = <<>>
  /\ UNCHANGED <<task, results, answer, note, report, cache, requests, elsewhere, leadVars>>

\* The other department's worker does the same in its thread.  Between its look into a
\* cache and what it puts there anything may happen here.  (What it does within a step of
\* Search or FetchPages it might as well do around it, and what it does while no cache is
\* read here it does before or after.)
AskElsewhere ==
  /\ elsewhere = Nothing /\ at \in {"idle", "search"}
  /\ elsewhere' \in Shared \ (DOMAIN cache \cup {u \in Urls : pages[u] # "unseen"})
  /\ UNCHANGED <<callVars, cache, requests, pageVars, leadVars>>

AnswerElsewhere ==
  /\ elsewhere \in Queries /\ at \in {"idle", "search"}
  /\ \E t \in Tasks : \E batch \in Batches(MaxResults[t]) :
       /\ cache' = Kept(elsewhere, batch)
       /\ \E sent \in IF batch = <<>> THEN {2} ELSE {1, 2} :
            requests' = [requests EXCEPT ![elsewhere] = @ + sent]
  /\ elsewhere' = Nothing
  /\ UNCHANGED <<callVars, pageVars, leadVars>>

PageElsewhere ==
  /\ elsewhere \in Urls /\ at \in {"idle", "search"}
  /\ \E got \in {"text", "none"} : pages' = [pages EXCEPT ![elsewhere] = got]
  /\ fetches' = [fetches EXCEPT ![elsewhere] = @ + 1]
  /\ elsewhere' = Nothing
  /\ UNCHANGED <<callVars, cache, requests, leadVars>>

\* Updates a model may bring for the fields of the section.
ModelUpdates == [Fields -> {"absent", "default", "value", "bad"}]

\* "asked" stands for the open questions of its own that an answer brings.
ModelAnswers ==
  [llm : {TRUE}, update : ModelUpdates, cited : {<<>>} \cup {<<i>> : i \in Invented},
   questions : {{"asked"}}]
    \cup {[llm |-> TRUE, update |-> [f \in Fields |-> "absent"], cited |-> <<>>,
           questions |-> {"unparsed"}]}

\* The fallback writes the brief's fields and the task's own, empty where it found
\* nothing, and never anything its schema refuses.
FallbackUpdates(t) ==
  LET written == Own[t] \cup Briefed
  IN {[f \in Fields |-> IF f \in filled THEN "value"
                        ELSE IF f \in written THEN "default" ELSE "absent"] :
        filled \in SUBSET written}

\* The open questions of a fallback.
FallbackQuestions ==
  (IF results = <<>> THEN {"no_evidence"} ELSE {}) \cup (IF excerpts THEN {} ELSE {"no_pages"})

\* _llm_synthesis: an answer that is no JSON is an empty update with a question.
LlmSynthesis ==
  /\ at = "synthesis"
  /\ answer' \in ModelAnswers
  /\ at' = "merge"
  /\ UNCHANGED <<task, pending, results, excerpts, note, report, workerVars, leadVars>>

\* No model (not granted, no key, disabled), or one that raised.
FallbackSynthesis ==
  /\ at = "synthesis"
  /\ \E u \in FallbackUpdates(task), failed \in BOOLEAN :
       /\ note' = IF failed THEN "llm_failed" ELSE NoNote
       /\ answer' = [llm |-> failed, update |-> u, cited |-> <<>>,
                        questions |-> FallbackQuestions
                                        \cup IF failed THEN {"llm_failed"} ELSE {}]
  /\ at' = "merge"
  /\ UNCHANGED <<task, pending, results, excerpts, report, workerVars, leadVars>>

\* The bridges: of the task's own fields, what is empty or of a wrong type may be
\* filled with what else the synthesis says, or be an empty list then.
Bridged(t, f, standing) ==
  IF f \in Own[t] /\ standing # "value" THEN {standing, "default", "value"} ELSE {standing}

\* The screen (RF-3): names that are peers', or no names, are dropped.
Screening(t, f, standing) ==
  IF f \in Own[t] \cap Screened /\ standing = "value" THEN {"value", "default"} ELSE {standing}

\* Extraction from the evidence texts: only what the section lacks as well.
Extracted(t, f, standing) ==
  IF f \in Own[t] /\ payload.fields[f] = "default" /\ standing \in {"absent", "default"}
  THEN {standing, "value"} ELSE {standing}

\* What run() may make of an update before it merges it.
Completed(t, update) ==
  {u \in ModelUpdates :
     \A f \in Fields : \E b \in Bridged(t, f, update[f]) : \E s \in Screening(t, f, b) :
       u[f] \in Extracted(t, f, s)}

\* _deep_merge on the standing of fields: the update wins, with a default, too.
Merged(fields, update) == [f \in Fields |-> IF update[f] = "absent" THEN fields[f] ELSE update[f]]

\* Mutant: the newest sources come first.
MergedSourcesNewest(sources, cited) ==
  Cut(Extended(Extended(Extended(results, sources), BriefSources), cited), MaxSources)

\* _merge_sources: the section's, the brief's, the task's, the model's; the first few.
MergedSources(sources, cited) ==
  Cut(Extended(Extended(Extended(sources, BriefSources), results), cited), MaxSources)

Return(fields, sources, questions, issue) ==
  /\ report' = [payload |-> [fields |-> fields, sources |-> sources],
                questions |-> questions, issue |-> issue]
  /\ at' = "report"
  /\ UNCHANGED <<task, pending, results, excerpts, answer, note, workerVars, leadVars>>

\* model_validate.
Valid(fields) == \A f \in Fields : fields[f] # "bad"

\* _merge_payload passes the schema.
Merge ==
  /\ at = "merge"
  /\ \E u \in Completed(task, answer.update) :
       LET fields == Merged(payload.fields, u)
       IN /\ Valid(fields)
          /\ Return(fields, MergedSources(payload.sources, answer.cited),
                    answer.questions, note)

\* salvage_valid_fields: what is valid by itself and says something.
Salvaged(update) == [f \in Fields |-> IF update[f] = "value" THEN "value" ELSE "absent"]

\* Mutant: the fallback's fields are put over the salvaged ones.
SalvagedUpdateFallbackFirst(update, fallback) == Merged(Salvaged(update), fallback)

\* The fallback's fields, with the salvaged ones over them.
SalvagedUpdate(update, fallback) == Merged(fallback, Salvaged(update))

SalvagedQuestions(asked, fallback) == asked \cup fallback \cup {"normalization_failed"}

\* The schema refuses what the model delivered: the valid fields of its own answer,
\* neither bridged nor screened, are put over a fallback.  (Its list of sources is gone
\* when that was what the schema refused, and kept otherwise.)
Salvage ==
  /\ at = "merge" /\ answer.llm
  /\ \E u \in Completed(task, answer.update) : ~ Valid(Merged(payload.fields, u))
  /\ \E u \in FallbackUpdates(task), cited \in {<<>>, answer.cited} :
       Return(Merged(payload.fields, SalvagedUpdate(answer.update, u)),
              MergedSources(payload.sources, cited),
              SalvagedQuestions(answer.questions, FallbackQuestions),
              "normalization_failed")

\* The locals of run() are gone when it has returned or raised.
Leave ==
  /\ at' = "idle" /\ task' = NoTask
  /\ pending' = <<>> /\ results' = <<>> /\ excerpts' = FALSE
  /\ answer' = Nil /\ note' = NoNote /\ report' = Nil

\* Lists of a wrong type in the model's answer raise out of run(): run_research records
\* an error, and nothing else.
Fail ==
  /\ at = "merge" /\ answer.llm
  /\ Leave
  /\ UNCHANGED <<workerVars, leadVars>>

\* run_research records the report.  (Its guard against lost fields asks for keys, which a
\* validated payload has all of.)
Record ==
  /\ at = "report"
  /\ payload' = report.payload
  /\ Leave
  /\ UNCHANGED <<workerVars, refined, executions>>

Work == Search \/ FetchPages \/ LlmSynthesis \/ FallbackSynthesis \/ Merge \/ Salvage \/ Fail \/ Record

WorkerNext ==
  \/ Work
  \/ AskElsewhere \/ AnswerElsewhere \/ PageElsewhere
  \/ \E t \in Tasks : Refine(t) \/ Start(t)

\* run() is sequential code whose requests have timeouts.
WorkerSpec == WorkerInit /\ [][WorkerNext]_allVars /\ WF_allVars(Work)

(***************************************************************************)
(* Properties.                                                              *)
(***************************************************************************)
Standing == {"absent", "default", "value", "bad"}

\* Every variable has its type, and what was validated is valid.
WorkerTypeOK ==
  /\ at \in {"idle", "search", "synthesis", "merge", "report"} /\ task \in Tasks \cup {NoTask}
  /\ ToSet(pending) \subseteq Queries /\ ToSet(results) \subseteq Urls
  /\ task \in Tasks => Len(results) <= MaxResults[task]
  /\ DOMAIN cache \subseteq Queries /\ \A q \in DOMAIN cache : ToSet(cache[q]) \subseteq Urls
  /\ requests \in [Queries -> Nat] /\ executions \in 0 .. CallBound
  /\ elsewhere \in Queries \cup Urls \cup {Nothing}
  /\ pages \in [Urls -> {"unseen", "text", "none"}] /\ fetches \in [Urls -> Nat]
  /\ payload.fields \in [Fields -> {"default", "value"}]
  /\ IsInjective(payload.sources) /\ Len(payload.sources) <= MaxSources
  /\ refined \subseteq Tasks
  /\ answer # Nil => answer.update \in [Fields -> Standing]

\* However often tasks are run again and whatever queries the departments share, a query
\* is sent to the search service twice and a page fetched once at most, and that much again
\* by a worker of another thread that looked at the same time (SearchCache).
BoundedTraffic ==
  /\ \A q \in Queries : requests[q] <= IF elsewhere = q THEN 2 ELSE 4
  /\ \A u \in Urls : fetches[u] <= IF elsewhere = u THEN 1 ELSE 2

\* No execution takes a source from the section: what an earlier task cited stays
\* cited, in its place (_merge_sources).
SourcesAreKept == [][IsPrefix(payload.sources, payload'.sources)]_allVars

\* A URL that only the model cites never takes the place of one that was found for the
\* task: as long as it is in the section, so is everything the search brought then.
FoundBeforeCited ==
  [][\A u \in ToSet(payload'.sources) \ ToSet(payload.sources) :
       u \in Invented => ToSet(results) \cup ToSet(BriefSources) \subseteq ToSet(payload'.sources)]_allVars

\* Sources stand: neither a later task nor the model's citations push out a source
\* that research found (_merge_sources).
SourcesStand == SourcesAreKept /\ FoundBeforeCited

\* When the schema refuses an answer for one of its fields, the fields that were sound
\* reach the payload all the same ("salvage valid fields ... instead of discarding");
\* otherwise the screen alone may take one back.
ValidFieldsSurvive ==
  report # Nil =>
    \A f \in Fields :
      /\ answer.update[f] = "value"
      /\ report.issue = "normalization_failed" \/ f \notin Screened \cap Own[task]
      => report.payload.fields[f] = "value"

\* Every way to a report keeps the open questions: those of the model, and what failed
\* on the way, which is all that the Critic ever hears of it.
QuestionsSurvive ==
  report # Nil =>
    /\ answer.questions \subseteq report.questions
    /\ report.issue # NoNote => report.issue \in report.questions

\* Whichever way an execution takes to its report, every state is well-typed and
\* no sound part of the model's answer is lost (_merge_and_validate, run).
AnswersSurvive == WorkerTypeOK /\ ValidFieldsSurvive /\ QuestionsSurvive

\* Every execution returns or raises.
ExecutionsEnd == at # "idle" ~> at = "idle"
=============================================================================
