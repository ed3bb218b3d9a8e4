------------------------ MODULE ProcessMemoryProofs ------------------------
(***************************************************************************)
(* What the memory promises, for any number of runs, any departments, tasks *)
(* and outcomes, and any number of deaths.  Three arguments are needed: the  *)
(* lock admits one writer at a time (Mutex), what a run is about to write    *)
(* holds everything that was reported as stored (Kept), and a pattern is     *)
(* made of an outcome that does not change any more (Learnt).                *)
(***************************************************************************)
EXTENDS ProcessMemory, TLAPS

Crit == {"truncating", "writing"}
Early == {"opening", "creating", "initial", "brief", "roles"}

\* The lock is held by the one run that rewrites the file.
Mutex ==
  \A r \in Runs :
    /\ at[r] \in Crit <=> lock = r
    /\ at[r] \in Crit \cup {"creating"} => profile = "development"

\* Before the file is there, nobody has come further than to create it.
Opened ==
  /\ file.state = "missing" =>
       /\ profile = "development" /\ learned = {}
       /\ \A r \in Runs : at[r] \in {"opening", "creating", "dead"}
  /\ profile = "production" => file.state = "whole"

Covers(set) == \A p \in learned : \E q \in set : NameOf(q) = NameOf(p)
OneEach(set) == \A p, q \in set : NameOf(p) = NameOf(q) => p = q

\* Whoever rewrites the file has read it whole and drops no name.
Kept ==
  ~ spoiled =>
    /\ \A r \in Runs : at[r] \in Crit => Covers(items[r])
    /\ (\A r \in Runs : at[r] # "writing") =>
         file.state \in {"whole", "missing"} /\ Covers(file.items)

Unique ==
  profile = "development" =>
    OneEach(file.items) /\ \A r \in Runs : OneEach(items[r])

Earned(p, o) ==
  /\ o.status # "needs_user_selection"
  /\ p.level = "task_positive" => o.tasks[p.task].status = "accepted"
  /\ p.level = "full_run" =>
       /\ o.usable
       /\ o.status = "meeting_ready"
       /\ 4 * Cardinality({t \in DOMAIN Tasks : o.tasks[t].status # "accepted"})
            <= Cardinality(DOMAIN Tasks)

\* A pattern was there before, or a run that has its outcome has earned it.
Learnt(p) ==
  p \in Seed \/ /\ p.run \in Runs /\ at[p.run] \notin Early
                /\ outcome[p.run] \in Outcomes /\ Earned(p, outcome[p.run])

AllLearnt ==
  /\ \A p \in file.items : Learnt(p)
  /\ \A r \in Runs : \A p \in items[r] \cup todo[r] : Learnt(p)

Recalls ==
  \A r \in Runs :
    /\ found[r] # {} => general[r] # {}
    /\ \A role \in Retrievable : \A p \in recalled[r][role] :
         p.role = role /\ p.text = "clean" /\ Learnt(p)

IInv == TypeOK /\ Mutex /\ Opened /\ Kept /\ Unique /\ AllLearnt /\ Recalls

-----------------------------------------------------------------------------
(* What a run teaches.                                                      *)

LEMMA OfIsPattern ==
  \A r \in Runs, role \in Roles, kind \in Kind, task \in DOMAIN Tasks \cup {"all"}, text \in Text :
     Of(r, role, kind, task, text) \in Pattern /\ Of(r, role, kind, task, text).run = r
<1> SUFFICES ASSUME NEW r \in Runs, NEW role \in Roles, NEW kind \in Kind,
                    NEW task \in DOMAIN Tasks \cup {"all"}, NEW text \in Text
             PROVE  Of(r, role, kind, task, text) \in Pattern
                    /\ Of(r, role, kind, task, text).run = r
  OBVIOUS
<1>1. ScoreOf(kind) \in 0 .. 100
  BY DEF ScoreOf, Kind
<1> QED BY <1>1 DEF Of, Pattern

LEMMA TaskFacts ==
  ASSUME NEW r \in Runs, NEW o \in Outcomes, NEW p \in TaskPatterns(r, o)
  PROVE  p \in Pattern /\ p.run = r
<1>1. PICK t \in Accepted(o) :
        LET dept == Tasks[t].owner
            Learn(role, kind) == Of(r, <<dept, role>>, kind, t, o.tasks[t].text)
        IN p \in {Learn("Lead", "task-recipe")}
            \cup {Learn("Researcher", "query-strategy") : x \in o.tasks[t].found \cap {"queries"}}
            \cup {Learn("Researcher", "source-strategy") : x \in o.tasks[t].found \cap {"sources"}}
            \cup {Learn("Researcher", "evidence-pattern") : x \in o.tasks[t].found \cap {"packets"}}
            \cup {Learn("Critic", "acceptance-heuristic") : x \in {TRUE} \cap {o.tasks[t].approved}}
  BY DEF TaskPatterns
<1>2. t \in DOMAIN Tasks /\ Tasks[t].owner \in Departments
  BY MemoryAssumption DEF Accepted
<1>3. o.tasks[t].text \in Text
  BY <1>2, MemoryAssumption DEF Outcome
<1>4. PICK name \in {"Lead", "Researcher", "Critic"}, kind \in Kind :
        p = Of(r, <<Tasks[t].owner, name>>, kind, t, o.tasks[t].text)
  BY <1>1 DEF Kind
<1>5. t \in DOMAIN Tasks \cup {"all"} /\ <<Tasks[t].owner, name>> \in Roles
  BY <1>2 DEF Roles
<1>6. /\ Of(r, <<Tasks[t].owner, name>>, kind, t, o.tasks[t].text) \in Pattern
      /\ Of(r, <<Tasks[t].owner, name>>, kind, t, o.tasks[t].text).run = r
  BY <1>2, <1>3, <1>5, OfIsPattern
<1> QED BY <1>4, <1>6

LEMMA RunFacts ==
  ASSUME NEW r \in Runs, NEW o \in Outcomes, NEW p \in RunPatterns(r, o)
  PROVE  p \in Pattern /\ p.run = r
<1>1. o.escalated \subseteq Departments /\ o.coded \subseteq Departments
      /\ o.retried \subseteq Departments
  BY MemoryAssumption DEF Outcome
<1>2. \A tasks : Wording(o, tasks) \in Text
  BY DEF Wording, Text
<1>3. PICK d \in Departments, text \in Text, kind \in Kind,
           name \in {"Lead", "Researcher", "Critic", "Judge", "CodingSpecialist"} :
        p = Of(r, <<d, name>>, kind, "all", text)
  BY <1>1, <1>2 DEF RunPatterns, Kind, Text
<1>4. "all" \in DOMAIN Tasks \cup {"all"} /\ <<d, name>> \in Roles
  BY DEF Roles
<1>5. /\ Of(r, <<d, name>>, kind, "all", text) \in Pattern
      /\ Of(r, <<d, name>>, kind, "all", text).run = r
  BY <1>4, OfIsPattern
<1> QED BY <1>3, <1>5

\* What is admitted of a run's patterns is its own, and earned.
LEMMA AdmittedFacts ==
  ASSUME NEW r \in Runs, NEW o \in Outcomes, NEW p \in Admitted(r, o)
  PROVE  p \in Pattern /\ p.run = r /\ Earned(p, o)
<1>1. p \in Consolidated(r, o)
  BY DEF Admitted
<1>2. p \in Pattern /\ p.run = r
  BY <1>1, TaskFacts, RunFacts DEF Consolidated
<1>3. p.level \in {"full_run", "task_positive"}
  BY <1>2 DEF Pattern
<1>4. DOMAIN Tasks \ Accepted(o) = {t \in DOMAIN Tasks : o.tasks[t].status # "accepted"}
  BY DEF Accepted
<1>5. Earned(p, o)
  BY <1>3, <1>4 DEF Admitted, ShouldStoreTask, ShouldStoreStrategy, Earned
<1> QED BY <1>2, <1>5

\* An upsert drops no name and doubles none.
LEMMA UpsertedFacts ==
  ASSUME NEW set \in SUBSET Pattern, NEW p \in Pattern
  PROVE  /\ Upserted(set, p) \subseteq set \cup {p}
         /\ OneEach(set) => OneEach(Upserted(set, p))
         /\ Covers(set) => Covers(Upserted(set, p))
<1>1. Upserted(set, p) \subseteq set \cup {p}
  BY DEF Upserted
<1>2. ASSUME OneEach(set) PROVE OneEach(Upserted(set, p))
  BY <1>2 DEF OneEach, Upserted
<1>3. \A q \in set : \E s \in Upserted(set, p) : NameOf(s) = NameOf(q)
  BY DEF Upserted
<1> QED BY <1>1, <1>2, <1>3 DEF Covers

LEMMA BatchFacts == \A set : \A batch \in Batch(set) : batch \subseteq set
BY DEF Batch, kSubset

LEMMA NoneIsNoOutcome == None \notin Outcomes
<1> SUFFICES ASSUME None \in Outcomes PROVE FALSE
  OBVIOUS
<1>1. DOMAIN None = {"none"}
  BY DEF None
<1>2. None \in Outcome
  BY MemoryAssumption
<1>3. "status" \in DOMAIN None
  BY <1>2 DEF Outcome
<1> QED BY <1>1, <1>3

-----------------------------------------------------------------------------
(* The steps.                                                               *)

LEMMA InitIInv == Init => IInv
<1> SUFFICES ASSUME Init PROVE IInv
  OBVIOUS
<1> USE DEF Init, Content
<1>1. TypeOK
  <2>1. 0 \in 0 .. MaxDeaths
    BY MemoryAssumption
  <2>2. file.state \in {"missing", "whole", "torn", "garbled"} /\ file.items \subseteq Pattern
    BY MemoryAssumption
  <2>3. recalled \in [Runs -> [Retrievable -> SUBSET Pattern]]
    OBVIOUS
  <2> QED BY <2>1, <2>2, <2>3 DEF TypeOK, Place
<1>2. Mutex
  BY MemoryAssumption DEF Mutex, Crit
<1>3. Opened /\ Kept
  BY DEF Opened, Kept, Covers, Crit
<1>4. Unique
  BY MemoryAssumption DEF Unique, OneEach
<1>5. AllLearnt /\ Recalls
  BY DEF AllLearnt, Recalls, Learnt
<1> QED BY <1>1, <1>2, <1>3, <1>4, <1>5 DEF IInv

\* An outcome, once there, is not changed, and no run returns to its early steps.
LEMMA LearntStays ==
  ASSUME TypeOK, NEW r \in Runs, NEW place, Goto(r, place),
         at[r] \in Early \/ place \notin Early, UNCHANGED outcome
  PROVE  \A p : Learnt(p) => Learnt(p)'
BY DEF TypeOK, Goto, Learnt, Earned

\* A step that only reads the store, or drops what it had to write.
LEMMA QuietStep ==
  ASSUME IInv, NEW r \in Runs, NEW place \in Place \ Crit, Goto(r, place),
         at[r] \notin Crit, at[r] \in Early \/ place \notin Early,
         place = "creating" => profile = "development",
         file.state = "missing" => place \in {"opening", "creating", "dead"},
         UNCHANGED <<profile, file, lock, items, learned, spoiled, outcome>>,
         todo' \in [Runs -> SUBSET Pattern], \A x \in Runs : todo'[x] \subseteq todo[x]
  PROVE  Mutex' /\ Opened' /\ Kept' /\ Unique' /\ AllLearnt'
<1> USE DEF IInv, Goto
<1>1. Mutex'
  BY DEF TypeOK, Mutex, Crit
<1>2. Opened'
  BY DEF TypeOK, Opened
<1>3. Kept'
  BY DEF TypeOK, Kept, Covers, Crit
<1>4. Unique'
  BY DEF Unique, OneEach
<1>5. AllLearnt'
  BY LearntStays DEF AllLearnt
<1> QED BY <1>1, <1>2, <1>3, <1>4, <1>5

\* What has been recalled stays as good as it was.
LEMMA RecallsStay ==
  ASSUME IInv, NEW r \in Runs, NEW place, Goto(r, place),
         at[r] \in Early \/ place \notin Early,
         UNCHANGED <<outcome, found, general, recalled>>
  PROVE  Recalls'
BY LearntStays DEF IInv, Recalls

LEMMA OpenStoreStep == ASSUME IInv, NEW r \in Runs, OpenStore(r) PROVE IInv'
<1> DEFINE place == IF file.state = "missing" THEN "creating" ELSE "initial"
<1>1. TypeOK'
  BY DEF IInv, OpenStore, TypeOK, Goto, Place, readVars, writeVars
<1>2. place \in Place \ Crit /\ Goto(r, place) /\ at[r] = "opening"
  BY DEF OpenStore, Place, Crit
<1>3. place = "creating" => profile = "development"
  BY DEF IInv, Opened
<1>4. Mutex' /\ Opened' /\ Kept' /\ Unique' /\ AllLearnt'
  BY <1>2, <1>3, QuietStep DEF OpenStore, readVars, writeVars, Crit, Early, IInv, TypeOK
<1>5. Recalls'
  BY <1>2, RecallsStay DEF OpenStore, readVars, Early
<1> QED BY <1>1, <1>4, <1>5 DEF IInv

LEMMA RaiseStep ==
  ASSUME IInv, NEW r \in Runs, Raise(r), at[r] \in Place \ Crit, UNCHANGED readVars
  PROVE  IInv'
<1>1. UNCHANGED lock
  BY DEF IInv, Mutex, Raise
<1>2. TypeOK'
  BY DEF IInv, Raise, TypeOK, Goto, Place, readVars
<1>3. Goto(r, "failed") /\ "failed" \in Place \ Crit /\ "failed" \notin Early
      /\ file.state # "missing"
  BY DEF Raise, Unreadable, Place, Crit, Early
<1>4. Mutex' /\ Opened' /\ Kept' /\ Unique' /\ AllLearnt'
  BY <1>1, <1>3, QuietStep DEF Raise, IInv, TypeOK
<1>5. Recalls'
  BY <1>3, RecallsStay DEF Raise, readVars
<1> QED BY <1>2, <1>4, <1>5 DEF IInv

LEMMA LoadedFacts ==
  ASSUME IInv
  PROVE  Loaded \subseteq Pattern /\ \A p \in Loaded : p \in file.items /\ Learnt(p)
BY DEF IInv, TypeOK, AllLearnt, Loaded

LEMMA CreateFileStep == ASSUME IInv, NEW r \in Runs, CreateFile(r) PROVE IInv'
<1> USE DEF IInv, CreateFile, Goto, Content, readVars, writeVars
<1>1. TypeOK'
  BY DEF TypeOK, Place
<1>2. Mutex'
  BY DEF TypeOK, Mutex, Crit
<1>3. Opened'
  BY DEF TypeOK, Opened, Mutex
<1>4. Kept'
  BY DEF TypeOK, Opened, Kept, Covers, Crit
<1>5. Unique'
  BY DEF Unique, OneEach
<1>6. AllLearnt' /\ Recalls'
  BY LearntStays, RecallsStay DEF AllLearnt, Early
<1> QED BY <1>1, <1>2, <1>3, <1>4, <1>5, <1>6

LEMMA RecallInitiallyStep == ASSUME IInv, NEW r \in Runs, RecallInitially(r) PROVE IInv'
<1>1. CASE Raise(r)
  BY <1>1, RaiseStep DEF RecallInitially, Raise, Place, Crit, readVars
<1>2. CASE ~ Raise(r)
  <2>1. PICK batch \in Batch({p \in Loaded : p.text = "clean"}) :
          /\ found' = [found EXCEPT ![r] = batch]
          /\ general' = [general EXCEPT ![r] = batch]
    BY <1>2 DEF RecallInitially
  <2>2. batch \subseteq Pattern
    BY BatchFacts, LoadedFacts
  <2>3. Goto(r, "brief") /\ at[r] = "initial"
        /\ UNCHANGED <<profile, file, outcome, recalled, unread, writeVars, deaths, spoiled>>
    BY <1>2 DEF RecallInitially
  <2>4. TypeOK'
    BY <2>1, <2>2, <2>3 DEF IInv, TypeOK, Goto, Place, writeVars
  <2>5. Mutex' /\ Opened' /\ Kept' /\ Unique' /\ AllLearnt'
    BY <2>3, QuietStep DEF IInv, Opened, TypeOK, writeVars, Place, Crit, Early
  <2>6. Recalls'
    <3>1. \A x \in Runs : found'[x] # {} => general'[x] # {}
      BY <2>1 DEF IInv, Recalls, TypeOK
    <3>2. \A p : Learnt(p) => Learnt(p)'
      BY <2>3, LearntStays DEF IInv, Early
    <3> QED BY <2>3, <3>1, <3>2 DEF IInv, Recalls
  <2> QED BY <2>4, <2>5, <2>6 DEF IInv
<1> QED BY <1>1, <1>2

LEMMA RecallForBriefStep == ASSUME IInv, NEW r \in Runs, RecallForBrief(r) PROVE IInv'
<1>1. CASE Raise(r)
  BY <1>1, RaiseStep DEF RecallForBrief, Raise, Place, Crit, readVars
<1>2. CASE ~ Raise(r)
  <2>1. PICK batch \in Batch({p \in Loaded : p.text = "clean"}) :
          general' = [general EXCEPT ![r] = KeptUnlessFound(@, batch)]
    BY <1>2 DEF RecallForBrief
  <2>2. batch \subseteq Pattern
    BY BatchFacts, LoadedFacts
  <2>3. Goto(r, "roles") /\ at[r] = "brief"
        /\ UNCHANGED <<profile, file, outcome, found, recalled, unread, writeVars, deaths, spoiled>>
    BY <1>2 DEF RecallForBrief
  <2>4. TypeOK'
    BY <2>1, <2>2, <2>3 DEF IInv, TypeOK, Goto, Place, writeVars, KeptUnlessFound
  <2>5. Mutex' /\ Opened' /\ Kept' /\ Unique' /\ AllLearnt'
    BY <2>3, QuietStep DEF IInv, Opened, TypeOK, writeVars, Place, Crit, Early
  <2>6. Recalls'
    BY <2>1, <2>3, LearntStays DEF IInv, Recalls, TypeOK, Early, KeptUnlessFound
  <2> QED BY <2>4, <2>5, <2>6 DEF IInv
<1> QED BY <1>1, <1>2

LEMMA RecallForRoleStep == ASSUME IInv, NEW r \in Runs, RecallForRole(r) PROVE IInv'
<1>1. CASE Raise(r)
  BY <1>1, RaiseStep DEF RecallForRole, Raise, Place, Crit, readVars
<1>2. CASE ~ Raise(r)
  <2> DEFINE role == CHOOSE x \in unread[r] : TRUE
  <2>1. role \in unread[r] /\ role \in Retrievable
    BY DEF RecallForRole, IInv, TypeOK
  <2>2. PICK batch \in Batch(Recallable(role)) :
          recalled' = [recalled EXCEPT ![r][role] = batch]
    BY <1>2 DEF RecallForRole
  <2>3. \A p \in batch : p \in Loaded /\ p.role = role /\ p.text = "clean"
    BY <2>2, BatchFacts DEF Recallable, Retrieved
  <2>4. /\ unread' = [unread EXCEPT ![r] = @ \ {role}]
        /\ UNCHANGED <<profile, file, at, outcome, found, general, writeVars, deaths, spoiled>>
    BY <1>2 DEF RecallForRole
  <2> HIDE DEF role
  <2>5. TypeOK'
    <3>1. batch \in SUBSET Pattern
      BY <2>3, LoadedFacts
    <3>2. recalled' \in [Runs -> [Retrievable -> SUBSET Pattern]]
      BY <2>1, <2>2, <3>1 DEF IInv, TypeOK
    <3> QED BY <2>4, <3>2 DEF IInv, TypeOK, writeVars
  <2>6. \A p : Learnt(p) => Learnt(p)'
    BY <2>4 DEF Learnt, Earned
  <2>7. Mutex' /\ Opened' /\ Kept' /\ Unique' /\ AllLearnt'
    BY <2>4, <2>6 DEF IInv, writeVars, Mutex, Opened, Kept, Covers, Unique, OneEach, AllLearnt
  <2>8. Recalls'
    <3> SUFFICES ASSUME NEW x \in Runs, NEW y \in Retrievable, NEW p \in recalled'[x][y]
                 PROVE  p.role = y /\ p.text = "clean" /\ Learnt(p)'
      BY <2>4 DEF IInv, Recalls
    <3>1. CASE x = r /\ y = role
      BY <2>1, <2>2, <2>3, <2>6, <3>1, LoadedFacts DEF IInv, TypeOK
    <3>2. CASE ~ (x = r /\ y = role)
      BY <2>1, <2>2, <2>6, <3>2 DEF IInv, TypeOK, Recalls
    <3> QED BY <3>1, <3>2
  <2> QED BY <2>5, <2>7, <2>8 DEF IInv
<1> QED BY <1>1, <1>2

LEMMA WorkStep == ASSUME IInv, NEW r \in Runs, Work(r) PROVE IInv'
<1> USE DEF IInv, Goto
<1>1. PICK o \in Outcomes : /\ outcome' = [outcome EXCEPT ![r] = o]
                            /\ todo' = [todo EXCEPT ![r] = Admitted(r, o)]
  BY DEF Work
<1>2. \A p \in Admitted(r, o) : p \in Pattern /\ p.run = r /\ Earned(p, o)
  BY AdmittedFacts
<1>3. TypeOK'
  BY <1>1, <1>2 DEF Work, TypeOK, Place
<1>4. Mutex' /\ Opened' /\ Kept' /\ Unique'
  BY DEF Work, TypeOK, Mutex, Opened, Kept, Covers, Unique, OneEach, Crit
\* Nothing was learnt from this run before, and what is left of others stays.
<1>5. \A p : Learnt(p) => Learnt(p)'
  BY <1>1 DEF Work, TypeOK, Learnt, Early, Earned
<1>6. \A p \in Admitted(r, o) : Learnt(p)'
  BY <1>1, <1>2 DEF Work, TypeOK, Learnt, Early
<1>7. AllLearnt'
  BY <1>1, <1>5, <1>6 DEF Work, TypeOK, AllLearnt
<1>8. Recalls'
  <2> SUFFICES ASSUME NEW x \in Runs
               PROVE  /\ found'[x] # {} => general'[x] # {}
                      /\ \A role \in Retrievable : \A p \in recalled'[x][role] :
                           p.role = role /\ p.text = "clean" /\ Learnt(p)'
    BY DEF Recalls
  <2>1. CASE x = r
    <3>1. found'[r] = {} /\ recalled'[r] = [role \in Retrievable |-> {}]
      BY DEF Work, TypeOK
    <3> QED BY <2>1, <3>1
  <2>2. CASE x # r
    <3>1. found'[x] = found[x] /\ general'[x] = general[x] /\ recalled'[x] = recalled[x]
      BY <2>2 DEF Work, TypeOK
    <3> QED BY <1>5, <3>1 DEF Recalls
  <2> QED BY <2>1, <2>2
<1> QED BY <1>3, <1>4, <1>7, <1>8

LEMMA UpcomingFacts ==
  ASSUME IInv, NEW r \in Runs, todo[r] # {}
  PROVE  Upcoming(r) \in todo[r] /\ Upcoming(r) \in Pattern /\ Learnt(Upcoming(r))
BY DEF IInv, TypeOK, AllLearnt, Upcoming

LEMMA TickFacts ==
  ASSUME IInv, NEW r \in Runs, Tick(r)
  PROVE  todo' \in [Runs -> SUBSET Pattern] /\ \A x \in Runs : todo'[x] \subseteq todo[x]
BY DEF IInv, TypeOK, Tick

LEMMA RefuseStep == ASSUME IInv, NEW r \in Runs, Refuse(r) PROVE IInv'
<1>1. TypeOK'
  BY TickFacts DEF IInv, Refuse, TypeOK, readVars
<1>2. \A p : Learnt(p) => Learnt(p)'
  BY DEF Refuse, Learnt, Earned
<1>3. Mutex' /\ Opened' /\ Kept' /\ Unique' /\ AllLearnt' /\ Recalls'
  BY <1>2, TickFacts DEF IInv, Refuse, Mutex, Opened, Kept, Covers, Unique, OneEach,
     AllLearnt, Recalls, readVars
<1> QED BY <1>1, <1>3 DEF IInv

\* Between two writers the file is whole, and nothing has been lost of it.
LEMMA AcquireStep == ASSUME IInv, NEW r \in Runs, Acquire(r) PROVE IInv'
<1>1. CASE Raise(r)
  BY <1>1, RaiseStep DEF Acquire, Raise, Place, Crit, readVars
<1>2. CASE ~ Raise(r)
  <2> USE DEF IInv, Goto
  <2> DEFINE new == Upserted(Loaded, Upcoming(r))
  <2>1. /\ lock = "free" /\ lock' = r /\ at[r] = "learning" /\ profile = "development"
        /\ items' = [items EXCEPT ![r] = new] /\ at' = [at EXCEPT ![r] = "truncating"]
        /\ UNCHANGED <<profile, file, outcome, readVars, todo, learned, deaths, spoiled>>
    BY <1>2 DEF Acquire
  <2>2. new \subseteq Pattern /\ \A p \in new : Learnt(p)
    BY UpcomingFacts, LoadedFacts, UpsertedFacts DEF Acquire
  <2>3. OneEach(file.items) => OneEach(new)
    <3>1. OneEach(file.items) => OneEach(Loaded)
      BY LoadedFacts DEF OneEach
    <3>2. Loaded \in SUBSET Pattern /\ Upcoming(r) \in Pattern
      BY LoadedFacts, UpcomingFacts DEF Acquire
    <3>3. OneEach(Loaded) => OneEach(new)
      BY <3>2, UpsertedFacts
    <3> QED BY <3>1, <3>3
  <2>4. \A x \in Runs : at[x] \notin Crit
    BY <2>1, MemoryAssumption DEF Mutex
  <2>5. ~ spoiled => Covers(new)
    <3> SUFFICES ASSUME ~ spoiled PROVE Covers(new)
      OBVIOUS
    <3>1. file.state = "whole" /\ Covers(file.items)
      BY <2>1, <2>4 DEF Kept, Crit, Opened
    <3> QED BY <3>1, UpcomingFacts, LoadedFacts, UpsertedFacts DEF Acquire, Loaded
  <2> HIDE DEF new
  <2>6. TypeOK'
    BY <2>1, <2>2 DEF TypeOK, Place, readVars
  <2>7. Mutex' /\ Opened'
    BY <2>1, <2>4 DEF TypeOK, Mutex, Opened, Crit
  <2>8. Kept'
    BY <2>1, <2>4, <2>5 DEF TypeOK, Kept, Covers, Crit
  <2>9. Unique'
    BY <2>1, <2>3 DEF TypeOK, Unique, OneEach
  <2>10. \A p : Learnt(p) => Learnt(p)'
    BY <2>1, LearntStays DEF Early
  <2>11. AllLearnt' /\ Recalls'
    BY <2>1, <2>2, <2>10 DEF TypeOK, AllLearnt, Recalls, readVars
  <2> QED BY <2>6, <2>7, <2>8, <2>9, <2>11
<1> QED BY <1>1, <1>2

LEMMA TruncateStep == ASSUME IInv, NEW r \in Runs, Truncate(r) PROVE IInv'
<1> USE DEF IInv, Truncate, Goto, readVars, writeVars
<1>1. TypeOK'
  BY DEF TypeOK, Place
<1>2. Mutex' /\ Opened'
  BY DEF TypeOK, Mutex, Opened, Crit
<1>3. Kept'
  BY DEF TypeOK, Kept, Covers, Crit
<1>4. Unique'
  BY DEF Unique, OneEach
<1>5. AllLearnt' /\ Recalls'
  BY LearntStays, RecallsStay DEF AllLearnt, Early
<1> QED BY <1>1, <1>2, <1>3, <1>4, <1>5

\* The new content has every name that was reported, and the one that is now.
LEMMA WriteStep == ASSUME IInv, NEW r \in Runs, Write(r) PROVE IInv'
<1> USE DEF IInv, Write, Goto, Content, readVars
<1>1. items[r] \subseteq Pattern /\ todo' \in [Runs -> SUBSET Pattern]
      /\ (\A x \in Runs : todo'[x] \subseteq todo[x]) /\ learned' \subseteq Pattern
  BY TickFacts DEF TypeOK
<1>2. TypeOK'
  BY <1>1 DEF TypeOK, Place
<1>3. \A x \in Runs \ {r} : at[x] \notin Crit
  BY DEF Mutex, Crit
<1>4. Mutex' /\ Opened'
  BY <1>3, MemoryAssumption DEF TypeOK, Mutex, Opened, Crit
<1>5. Kept'
  <2>1. ~ spoiled => Covers(items[r])
    BY DEF Kept, Crit
  <2>2. ~ spoiled => \A p \in learned' : \E q \in items[r] : NameOf(q) = NameOf(p)
    BY <2>1 DEF Covers
  <2> QED BY <1>3, <2>2 DEF TypeOK, Kept, Covers, Crit
<1>6. Unique'
  BY DEF TypeOK, Unique, OneEach
<1>7. \A p : Learnt(p) => Learnt(p)'
  BY LearntStays DEF Early
<1>8. AllLearnt'
  <2>1. \A p \in items[r] : Learnt(p)'
    BY <1>7 DEF AllLearnt
  <2>2. \A x \in Runs : items'[x] \subseteq items[x] /\ todo'[x] \subseteq todo[x]
    BY <1>1 DEF TypeOK
  <2>3. \A x \in Runs : \A p \in items'[x] \cup todo'[x] : Learnt(p)'
    BY <1>7, <2>2 DEF AllLearnt
  <2> QED BY <2>1, <2>3 DEF AllLearnt
<1>9. Recalls'
  BY RecallsStay DEF Early
<1> QED BY <1>2, <1>4, <1>5, <1>6, <1>8, <1>9

LEMMA InsertStep == ASSUME IInv, NEW r \in Runs, Insert(r) PROVE IInv'
<1> USE DEF IInv, Insert, Content, readVars
<1>1. Upcoming(r) \in Pattern /\ Learnt(Upcoming(r))
  BY UpcomingFacts
<1>2. TypeOK'
  BY <1>1, TickFacts DEF TypeOK
<1>3. \A x \in Runs : at[x] \notin Crit
  BY DEF Mutex
<1>4. Mutex' /\ Opened' /\ Unique'
  BY DEF Mutex, Opened, Unique
<1>5. Kept'
  BY <1>3 DEF Kept, Covers, Crit
<1>6. \A p : Learnt(p) => Learnt(p)'
  BY DEF Learnt, Earned
<1>7. AllLearnt' /\ Recalls'
  BY <1>1, <1>6, TickFacts DEF AllLearnt, Recalls
<1> QED BY <1>2, <1>4, <1>5, <1>7

LEMMA FinishStep == ASSUME IInv, NEW r \in Runs, Finish(r) PROVE IInv'
<1>1. TypeOK'
  BY DEF IInv, Finish, TypeOK, Goto, Place, readVars, writeVars
<1>2. Mutex' /\ Opened' /\ Kept' /\ Unique' /\ AllLearnt'
  BY QuietStep DEF IInv, Opened, Finish, TypeOK, Place, Crit, Early, readVars, writeVars
<1>3. Recalls'
  BY RecallsStay DEF Finish, Early, readVars
<1> QED BY <1>1, <1>2, <1>3 DEF IInv

\* A writer that dies spoils the file, and gives the lock back.
LEMMA DieStep == ASSUME IInv, NEW r \in Runs, Die(r) PROVE IInv'
<1> USE DEF IInv, Die, Goto, ReleasedBy, readVars
<1>1. TypeOK'
  <2>1. deaths' \in 0 .. MaxDeaths
    BY MemoryAssumption DEF TypeOK
  <2>2. lock' \in Runs \cup {"free"} /\ at' \in [Runs -> Place]
    BY DEF TypeOK, Place
  <2>3. /\ file'.state \in {"missing", "whole", "torn", "garbled"}
        /\ file'.items \subseteq Pattern /\ spoiled' \in BOOLEAN
    <3>1. CASE at[r] = "writing"
      BY <3>1
    <3>2. CASE at[r] # "writing"
      BY <3>2 DEF TypeOK
    <3> QED BY <3>1, <3>2
  <2> QED BY <2>1, <2>2, <2>3 DEF TypeOK
<1>2. Mutex'
  BY MemoryAssumption DEF TypeOK, Mutex, Crit, Ended
<1>3. Opened'
  BY DEF TypeOK, Opened, Mutex, Crit
<1>4. Kept'
  BY DEF TypeOK, Kept, Covers, Crit
<1>5. Unique'
  BY DEF Unique, OneEach
<1>6. \A p : Learnt(p) => Learnt(p)'
  BY LearntStays DEF Early
<1>7. AllLearnt' /\ Recalls'
  BY <1>6 DEF AllLearnt, Recalls
<1> QED BY <1>1, <1>2, <1>3, <1>4, <1>5, <1>7

LEMMA StepIInv == IInv /\ [Next]_vars => IInv'
<1> SUFFICES ASSUME IInv, [Next]_vars PROVE IInv'
  OBVIOUS
<1>1. ASSUME NEW r \in Runs, Advance(r) PROVE IInv'
  BY <1>1, OpenStoreStep, CreateFileStep, RecallInitiallyStep, RecallForBriefStep,
     RecallForRoleStep, WorkStep, RefuseStep, AcquireStep, TruncateStep, WriteStep,
     InsertStep, FinishStep DEF Advance
<1>2. ASSUME NEW r \in Runs, Die(r) PROVE IInv'
  BY <1>2, DieStep
<1>3. CASE UNCHANGED vars
  <2>1. UNCHANGED <<profile, file, lock, at, outcome, found, general, recalled, unread,
                    todo, items, deaths, learned, spoiled>>
    BY <1>3 DEF vars, readVars, writeVars
  <2>2. \A p : Learnt(p) => Learnt(p)'
    BY <2>1 DEF Learnt, Earned
  <2>3. TypeOK' /\ Mutex' /\ Opened'
    BY <2>1 DEF IInv, TypeOK, Mutex, Opened
  <2>4. Kept' /\ Unique'
    BY <2>1 DEF IInv, Kept, Covers, Unique, OneEach
  <2>5. AllLearnt' /\ Recalls'
    BY <2>1, <2>2 DEF IInv, AllLearnt, Recalls
  <2> QED BY <2>3, <2>4, <2>5 DEF IInv
<1> QED BY <1>1, <1>2, <1>3 DEF Next

LEMMA Inductive == Spec => []IInv
BY InitIInv, StepIInv, PTL DEF Spec

-----------------------------------------------------------------------------
(* What follows.                                                            *)

\* The variables keep their types.
THEOREM TypeCorrect == Spec => []TypeOK
<1>1. IInv => TypeOK
  BY DEF IInv
<1> QED BY <1>1, Inductive, PTL

\* Whatever is in the store after the seed, some run that ended well enough has
\* put there (should_store_memory_pattern), however runs interleave and die.
THEOREM KnowledgeEarned == Spec => []KnowledgeIsEarned
<1>1. IInv => KnowledgeIsEarned
  BY DEF IInv, AllLearnt, Learnt, Earned, KnowledgeIsEarned
<1> QED BY <1>1, Inductive, PTL

\* As long as no write was cut short and no file recreated, what an upsert
\* reported as stored is there when nobody is writing, once per name in the
\* file (upsert_strategy under its lock).
THEOREM StoreSound == Spec => []StoreIsSound
<1>1. IInv => StoreIsSound
  BY DEF IInv, Kept, Covers, Unique, OneEach, StoreIsSound, MemoryIsKept
<1> QED BY <1>1, Inductive, PTL

\* A role is given patterns of its own, without names and amounts, and earned;
\* the second retrieval never takes away what the first had found.
THEOREM RecallSound == Spec => []RecallIsSound
<1>1. IInv => RecallIsSound
  <2>1. \A p : Learnt(p) => p \in Seed \/ outcome[p.run] # None
    BY NoneIsNoOutcome DEF Learnt
  <2> QED BY <2>1 DEF IInv, Recalls, RecallIsSound
<1> QED BY <1>1, Inductive, PTL

=============================================================================
