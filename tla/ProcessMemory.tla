--------------------------- MODULE ProcessMemory ---------------------------
(***************************************************************************)
(* What runs learn from each other (memory/consolidation.py, policies.py,   *)
(* retrieval.py, long_term_store.py, storage/runtime_stores.py).  A run      *)
(* reads the patterns of earlier runs when it starts and writes its own when *)
(* it ends.  Runs are processes: several are under way at a time, any of     *)
(* them may die at any point.                                               *)
(*                                                                         *)
(* The development profile keeps all patterns in one JSON file: written in   *)
(* place under a lock file, created and read without it.  The production     *)
(* profile keeps them in a table, one transaction per pattern.               *)
(***************************************************************************)
EXTENDS Naturals, FiniteSets, FiniteSetsExt, Packages

CONSTANTS Runs,
          Departments,
          Tasks,       \* task -> [owner, mentions]: its department, and those
                       \* whose name its key contains
          Outcomes,    \* how runs may end, for what they learn
          Seed,        \* the patterns there are at first
          Retrievable, \* the roles that are read at the start of a run
          Limit,       \* bound of one retrieval
          MaxDeaths    \* bound: runs that die

Roles == Departments \X {"Lead", "Researcher", "Critic", "Judge", "CodingSpecialist"}
Kind == {"query-patterns", "query-strategy", "source-strategy", "evidence-pattern",
         "task-recipe", "acceptance-heuristic", "critic-heuristics",
         "judge-patterns", "coding-patterns", "retry-patterns"}

\* scores in hundredths
ScoreOf(kind) ==
  CASE kind \in {"query-patterns", "critic-heuristics"} -> 100
    [] kind = "query-strategy"                          -> 95
    [] kind = "task-recipe"                             -> 92
    [] kind = "retry-patterns"                          -> 85
    [] OTHER                                            -> 90

\* text: what is left in it after scrubbing; "amount" only the retrieval
\* rejects, "named" (a known company, a legal name) the file store too.
Text == {"clean", "amount", "named"}
Pattern ==
  [role : Roles, kind : Kind, task : DOMAIN Tasks \cup {"all"},
   level : {"full_run", "task_positive"}, score : 0 .. 100, text : Text,
   run : Runs \cup {"earlier"}]

NameOf(p) == <<p.role, p.kind, p.task>>

Outcome ==
  [status : {"meeting_ready", "discovery_ready_not_execution_ready",
             "blocked_not_meeting_ready", "needs_user_selection"},
   usable : BOOLEAN, strong : BOOLEAN, \* readiness score at least 70
   tasks : [DOMAIN Tasks -> [status : TaskStatus \cup {"skipped"},
                             found : SUBSET {"queries", "sources", "packets"},
                             approved : BOOLEAN, text : Text]],
   escalated : SUBSET Departments, coded : SUBSET Departments,
   retried : SUBSET Departments]

ASSUME MemoryAssumption ==
  /\ \A t \in DOMAIN Tasks : /\ Tasks[t].owner \in Departments
                             /\ Tasks[t].mentions \subseteq Departments
  /\ Outcomes \subseteq Outcome
  /\ Seed \subseteq Pattern
  /\ \A p, q \in Seed : NameOf(p) = NameOf(q) => p = q
  /\ Retrievable \subseteq Roles
  /\ "earlier" \notin Runs /\ "free" \notin Runs
  /\ Limit \in Nat \ {0}
  /\ MaxDeaths \in Nat

VARIABLES
  profile,  \* "development" or "production"
  file,     \* [state, items]: the file, or the rows of the table
  lock,     \* the run that holds the lock file, or "free"
  at,       \* run -> where it is
  outcome,  \* run -> how it ended, None
  found,    \* run -> what the initial retrieval returned
  general,  \* run -> retrieved_strategies
  recalled, \* run -> role -> retrieved_role_strategies
  unread,   \* run -> the roles it has not read yet
  todo,     \* run -> the patterns it has still to write
  items,    \* run -> what it is about to write, under the lock
  deaths,
  learned,  \* history: the patterns whose upsert returned TRUE
  spoiled   \* history: a write was cut short, or an existing file recreated

readVars == <<found, general, recalled, unread>>
writeVars == <<lock, todo, items, learned>>
vars == <<profile, file, at, outcome, readVars, writeVars, deaths, spoiled>>

Place == {"opening", "creating", "initial", "brief", "roles", "learning",
          "truncating", "writing", "done", "failed", "dead"}
Ended == {"done", "failed", "dead"}

TypeOK ==
  /\ profile \in {"development", "production"}
  /\ file.state \in {"missing", "whole", "torn", "garbled"}
  /\ file.items \subseteq Pattern
  /\ lock \in Runs \cup {"free"}
  /\ at \in [Runs -> Place]
  /\ outcome \in [Runs -> Outcomes \cup {None}]
  /\ found \in [Runs -> SUBSET Pattern]
  /\ general \in [Runs -> SUBSET Pattern]
  /\ recalled \in [Runs -> [Retrievable -> SUBSET Pattern]]
  /\ unread \in [Runs -> SUBSET Retrievable]
  /\ todo \in [Runs -> SUBSET Pattern]
  /\ items \in [Runs -> SUBSET Pattern]
  /\ deaths \in 0 .. MaxDeaths
  /\ learned \subseteq Pattern
  /\ spoiled \in BOOLEAN

Content(set) == [state |-> "whole", items |-> set]

Init ==
  /\ profile \in {"development", "production"}
  /\ \/ file = Content(Seed)
     \/ profile = "development" /\ file = [state |-> "missing", items |-> {}]
  /\ lock = "free"
  /\ at = [r \in Runs |-> "opening"]
  /\ outcome = [r \in Runs |-> None]
  /\ found = [r \in Runs |-> {}]
  /\ general = [r \in Runs |-> {}]
  /\ recalled = [r \in Runs |-> [role \in Retrievable |-> {}]]
  /\ unread = [r \in Runs |-> Retrievable]
  /\ todo = [r \in Runs |-> {}]
  /\ items = [r \in Runs |-> {}]
  /\ deaths = 0
  /\ learned = {}
  /\ spoiled = FALSE

Goto(r, place) == at' = [at EXCEPT ![r] = place]

-----------------------------------------------------------------------------
(* What a run teaches: consolidate_role_patterns and the admission policy.  *)

Of(r, role, kind, task, text) ==
  [role |-> role, kind |-> kind, task |-> task,
   level |-> IF task = "all" THEN "full_run" ELSE "task_positive",
   score |-> ScoreOf(kind), text |-> text, run |-> r]

Accepted(o) == {t \in DOMAIN Tasks : o.tasks[t].status = "accepted"}

\* An accepted task: its queries, its mix of sources, its evidence, a recipe
\* for the Lead, and what the Critic accepted.
TaskPatterns(r, o) ==
  UNION {LET dept == Tasks[t].owner
             Learn(role, kind) == Of(r, <<dept, role>>, kind, t, o.tasks[t].text)
         IN {Learn("Lead", "task-recipe")}
            \cup {Learn("Researcher", "query-strategy") : x \in o.tasks[t].found \cap {"queries"}}
            \cup {Learn("Researcher", "source-strategy") : x \in o.tasks[t].found \cap {"sources"}}
            \cup {Learn("Researcher", "evidence-pattern") : x \in o.tasks[t].found \cap {"packets"}}
            \cup {Learn("Critic", "acceptance-heuristic") : x \in {TRUE} \cap {o.tasks[t].approved}}
         : t \in Accepted(o)}

\* What scrubbing leaves of the queries of these tasks.
Wording(o, tasks) ==
  IF \A t \in tasks : o.tasks[t].text = "clean" THEN "clean" ELSE "named"

\* A whole run: all accepted queries of a role, the reviews whose task key
\* contains the name of the department, and what the departments recorded.
RunPatterns(r, o) ==
  LET Learn(dept, role, kind) == Of(r, <<dept, role>>, kind, "all", "clean")
      Worded(dept, text) == Of(r, <<dept, "Researcher">>, "query-patterns", "all", text)
      Queried(dept) == {t \in Accepted(o) : /\ Tasks[t].owner = dept
                                            /\ "queries" \in o.tasks[t].found}
      Reviewed(dept) == \E t \in Accepted(o) : dept \in Tasks[t].mentions
  IN {Worded(d, Wording(o, Queried(d))) : d \in {e \in Departments : Queried(e) # {}}}
     \cup {Learn(d, "Critic", "critic-heuristics") : d \in {e \in Departments : Reviewed(e)}}
     \cup {Learn(d, "Judge", "judge-patterns") : d \in o.escalated}
     \cup {Learn(d, "CodingSpecialist", "coding-patterns") : d \in o.coded}
     \cup {Learn(d, "Lead", "retry-patterns") : d \in o.retried}

Consolidated(r, o) ==
  (IF o.status = "meeting_ready" /\ o.usable THEN RunPatterns(r, o) ELSE {})
  \cup (IF o.status = "needs_user_selection" THEN {} ELSE TaskPatterns(r, o))

\* Mutant: how many tasks failed does not matter.
ShouldStoreStrategyLax(o) == o.status = "meeting_ready" /\ o.usable /\ o.strong

\* should_store_strategy: at most a quarter of the tasks went wrong.
ShouldStoreStrategy(o) ==
  /\ o.status = "meeting_ready"
  /\ o.usable
  /\ o.strong
  /\ 4 * Cardinality(DOMAIN Tasks \ Accepted(o)) <= Cardinality(DOMAIN Tasks)

\* should_store_positive_task_pattern.
ShouldStoreTask(o, t) ==
  o.status # "needs_user_selection" /\ o.tasks[t].status = "accepted"

\* should_store_memory_pattern.
Admitted(r, o) ==
  {p \in Consolidated(r, o) :
     IF p.level = "task_positive" THEN ShouldStoreTask(o, p.task)
                                  ELSE ShouldStoreStrategy(o)}

-----------------------------------------------------------------------------
(* A run opens the store.                                                   *)

\* FileLongTermMemoryStore.__init__ looks for the file, and only afterwards
\* creates it, without the lock.  The table is there before (healthcheck).
OpenStore(r) ==
  /\ at[r] = "opening"
  /\ Goto(r, IF file.state = "missing" THEN "creating" ELSE "initial")
  /\ UNCHANGED <<profile, file, outcome, readVars, writeVars, deaths, spoiled>>

CreateFile(r) ==
  /\ at[r] = "creating"
  /\ file' = Content({})
  /\ spoiled' = (spoiled \/ file.state # "missing")
  /\ Goto(r, "initial")
  /\ UNCHANGED <<profile, outcome, readVars, writeVars, deaths>>

-----------------------------------------------------------------------------
(* What a run recalls.                                                      *)

\* load: a file that is cut reads as no patterns, unless the cut splits a
\* character, which is an exception nobody expects here.
Loaded == IF file.state = "whole" THEN file.items ELSE {}
Unreadable == file.state = "garbled"

\* Mutant: a role may learn from any role.
RecallableByAnyone(role) == {p \in Loaded : p.text = "clean"}

\* retrieve of the stores for a role.
Retrieved(role) == {p \in Loaded : p.role = role}

\* _policy_rejection: no names, no amounts.
Recallable(role) == {p \in Retrieved(role) : p.text = "clean"}

\* Of what may be recalled the best Limit are, whichever they are.
Batch(set) == kSubset(Min({Limit, Cardinality(set)}), set)

Raise(r) ==
  /\ Unreadable
  /\ Goto(r, "failed")
  /\ lock' = IF lock = r THEN "free" ELSE lock
  /\ UNCHANGED <<profile, file, outcome, readVars, todo, items, learned, deaths,
                 spoiled>>

\* _initialize_run: patterns of every role.
RecallInitially(r) ==
  /\ at[r] = "initial"
  /\ \/ Raise(r)
     \/ /\ ~ Unreadable
        /\ \E batch \in Batch({p \in Loaded : p.text = "clean"}) :
             /\ found' = [found EXCEPT ![r] = batch]
             /\ general' = [general EXCEPT ![r] = batch]
        /\ Goto(r, "brief")
        /\ UNCHANGED <<profile, file, outcome, recalled, unread, writeVars, deaths,
                       spoiled>>

\* The supervisor's brief: the second retrieval replaces the first if it found
\* anything.
KeptUnlessFound(old, batch) == IF batch = {} THEN old ELSE batch

RecallForBrief(r) ==
  /\ at[r] = "brief"
  /\ \/ Raise(r)
     \/ /\ ~ Unreadable
        /\ \E batch \in Batch({p \in Loaded : p.text = "clean"}) :
             general' = [general EXCEPT ![r] = KeptUnlessFound(@, batch)]
        /\ Goto(r, "roles")
        /\ UNCHANGED <<profile, file, outcome, found, recalled, unread, writeVars,
                       deaths, spoiled>>

\* One read of the file for every role, one after the other: between two of
\* them the file may change.
RecallForRole(r) ==
  /\ at[r] = "roles"
  /\ unread[r] # {}
  /\ \/ Raise(r)
     \/ /\ ~ Unreadable
        /\ LET role == CHOOSE x \in unread[r] : TRUE
           IN /\ \E batch \in Batch(Recallable(role)) :
                   recalled' = [recalled EXCEPT ![r][role] = batch]
              /\ unread' = [unread EXCEPT ![r] = @ \ {role}]
        /\ UNCHANGED <<profile, file, at, outcome, found, general, writeVars,
                       deaths, spoiled>>

-----------------------------------------------------------------------------
(* What a run writes.                                                       *)

\* The run itself, which is where the recalled patterns go, and the
\* consolidation of its own.
Work(r) ==
  /\ at[r] = "roles"
  /\ unread[r] = {}
  /\ \E o \in Outcomes : /\ outcome' = [outcome EXCEPT ![r] = o]
                         /\ todo' = [todo EXCEPT ![r] = Admitted(r, o)]
  /\ found' = [found EXCEPT ![r] = {}]
  /\ general' = [general EXCEPT ![r] = {}]
  /\ recalled' = [recalled EXCEPT ![r] = [role \in Retrievable |-> {}]]
  /\ Goto(r, "learning")
  /\ UNCHANGED <<profile, file, unread, lock, items, learned, deaths, spoiled>>

\* The patterns of a run have different names: their order does not matter.
Upcoming(r) == CHOOSE p \in todo[r] : TRUE
Tick(r) == todo' = [todo EXCEPT ![r] = @ \ {Upcoming(r)}]

\* upsert_strategy of the file refuses what still names somebody.
Refuse(r) ==
  /\ at[r] = "learning"
  /\ profile = "development"
  /\ todo[r] # {}
  /\ Upcoming(r).text = "named"
  /\ Tick(r)
  /\ UNCHANGED <<profile, file, at, outcome, readVars, lock, items, learned,
                 deaths, spoiled>>

\* One entry of a name; an older one stays only if its score, less a tenth, is
\* higher.
Upserted(set, p) ==
  LET same == {q \in set : NameOf(q) = NameOf(p)}
  IN IF \E q \in same : 10 * p.score < 9 * q.score
     THEN set
     ELSE (set \ same) \cup {p}

\* Mutant: nobody waits for the lock.
AcquireAtOnce(r) ==
  /\ at[r] = "learning"
  /\ profile = "development"
  /\ todo[r] # {}
  /\ Upcoming(r).text # "named"
  /\ \/ Raise(r)
     \/ /\ ~ Unreadable
        /\ lock' = r
        /\ items' = [items EXCEPT ![r] = Upserted(Loaded, Upcoming(r))]
        /\ Goto(r, "truncating")
        /\ UNCHANGED <<profile, file, outcome, readVars, todo, learned, deaths, spoiled>>

\* The lock is taken, the file is read, the entry is placed.
Acquire(r) ==
  /\ at[r] = "learning"
  /\ profile = "development"
  /\ todo[r] # {}
  /\ Upcoming(r).text # "named"
  /\ lock = "free"
  /\ \/ Raise(r)
     \/ /\ ~ Unreadable
        /\ lock' = r
        /\ items' = [items EXCEPT ![r] = Upserted(Loaded, Upcoming(r))]
        /\ Goto(r, "truncating")
        /\ UNCHANGED <<profile, file, outcome, readVars, todo, learned, deaths, spoiled>>

\* write_text opens the file, which empties it ...
Truncate(r) ==
  /\ at[r] = "truncating"
  /\ file' = [state |-> "torn", items |-> {}]
  /\ Goto(r, "writing")
  /\ UNCHANGED <<profile, outcome, readVars, writeVars, deaths, spoiled>>

\* ... and then writes it.  What an upsert that changes nothing returns is FALSE.
Write(r) ==
  /\ at[r] = "writing"
  /\ file' = Content(items[r])
  /\ learned' = IF Upcoming(r) \in items[r] THEN learned \cup {Upcoming(r)} ELSE learned
  /\ lock' = "free"
  /\ items' = [items EXCEPT ![r] = {}]
  /\ Tick(r)
  /\ Goto(r, "learning")
  /\ UNCHANGED <<profile, outcome, readVars, deaths, spoiled>>

\* One row per content; the content holds the run, so that every run has its
\* own, and whatever a pattern says is stored.
Insert(r) ==
  /\ at[r] = "learning"
  /\ profile = "production"
  /\ todo[r] # {}
  /\ file' = Content(file.items \cup {Upcoming(r)})
  /\ learned' = learned \cup {Upcoming(r)}
  /\ Tick(r)
  /\ UNCHANGED <<profile, at, outcome, readVars, lock, items, deaths, spoiled>>

Finish(r) ==
  /\ at[r] = "learning"
  /\ todo[r] = {}
  /\ Goto(r, "done")
  /\ UNCHANGED <<profile, file, outcome, readVars, writeVars, deaths, spoiled>>

\* Mutant: the lock file outlives its holder.
StillHeldBy(r) == UNCHANGED lock

\* The lock is the kernel's, on the open file: it goes with its holder.
ReleasedBy(r) == lock' = IF lock = r THEN "free" ELSE lock

\* The process dies, or a write fails.  What was being written stays cut.
Die(r) ==
  /\ at[r] \notin Ended
  /\ deaths < MaxDeaths
  /\ deaths' = deaths + 1
  /\ Goto(r, "dead")
  /\ ReleasedBy(r)
  /\ IF at[r] = "writing"
     THEN /\ \E state \in {"torn", "garbled"} : file' = [state |-> state, items |-> {}]
          /\ spoiled' = TRUE
     ELSE UNCHANGED <<file, spoiled>>
  /\ UNCHANGED <<profile, outcome, readVars, todo, items, learned>>

Advance(r) ==
  \/ OpenStore(r) \/ CreateFile(r)
  \/ RecallInitially(r) \/ RecallForBrief(r) \/ RecallForRole(r)
  \/ Work(r) \/ Refuse(r) \/ Acquire(r) \/ Truncate(r) \/ Write(r) \/ Insert(r)
  \/ Finish(r)

Next == \E r \in Runs : Advance(r) \/ Die(r)

Spec == Init /\ [][Next]_vars

\* A run that is not dead goes on; the lock, which is polled, is free again
\* and again because every other run writes finitely often.
FairSpec == Spec /\ \A r \in Runs : WF_vars(Advance(r))

-----------------------------------------------------------------------------
(* What the memory promises.                                                *)

\* Nothing is learned from what failed: a pattern of a whole run comes from a
\* usable run of which at most a quarter went wrong, a pattern of a task from a
\* task that was accepted there, and none from a run that paused or is not over.
KnowledgeIsEarned ==
  \A p \in file.items \ Seed :
    /\ outcome[p.run] \in Outcomes
    /\ LET o == outcome[p.run]
       IN /\ o.status # "needs_user_selection"
          /\ p.level = "task_positive" => o.tasks[p.task].status = "accepted"
          /\ p.level = "full_run" =>
               /\ o.usable
               /\ o.status = "meeting_ready"
               /\ 4 * Cardinality({t \in DOMAIN Tasks : o.tasks[t].status # "accepted"})
                    <= Cardinality(DOMAIN Tasks)

\* What an upsert reported as stored is still there, itself or in a newer
\* version, whoever writes at the same time and whoever dies, as long as no
\* write was cut short and nobody recreated the file; the file has one entry a
\* name.  While a run writes, the others may see nothing.
MemoryIsKept ==
  /\ ~ spoiled /\ (\A r \in Runs : at[r] # "writing") =>
       \A p \in learned : \E q \in file.items : NameOf(q) = NameOf(p)
  /\ profile = "development" =>
       \A p, q \in file.items : NameOf(p) = NameOf(q) => p = q

\* Every state has its type, and what was stored is kept.
StoreIsSound == TypeOK /\ MemoryIsKept

\* A role recalls only what was written for it, by a run that is over or before
\* all runs, and without names and amounts; and the general memory of a run
\* is empty only if its first retrieval found nothing either, although the file
\* may look empty at any later read.
RecallIsSound ==
  \A r \in Runs :
    /\ found[r] # {} => general[r] # {}
    /\ \A role \in Retrievable : \A p \in recalled[r][role] :
         /\ p.role = role
         /\ p.text = "clean"
         /\ p \in Seed \/ outcome[p.run] # None

\* Every run gets through its reads and its writes, or dies, or fails on a file
\* that cannot be decoded: nobody waits for the lock for ever.
RunsEnd == \A r \in Runs : <>(at[r] \in Ended)
=============================================================================
