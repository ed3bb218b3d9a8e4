------------------------------ MODULE StepBus ------------------------------
(***************************************************************************)
(* The trace of runtime steps (orchestration/step_bus.py, runtime_step.py,  *)
(* otel_step_consumer.py).  The main thread and the threads of the Company  *)
(* and Market departments share one StepEmitter; a step is numbered, put    *)
(* past the secret guard and handed to the consumers one after the other,   *)
(* without a lock anywhere.  A consumer that raises is logged and skipped.  *)
(* A resume is another emitter on the trace the export left.                *)
(*                                                                         *)
(* A step is its idempotency key, what the telemetry asks of it, and        *)
(* whether the guard finds a secret in it.  A thread may be interrupted at  *)
(* every call; += on an attribute is one step, as the interpreter the image *)
(* pins (CPython 3.12) executes it.                                         *)
(***************************************************************************)
EXTENDS Naturals, Sequences, FiniteSets, SequencesExt

CONSTANTS Keys,        \* idempotency keys
          Threads,     \* "main" and the departments that run in parallel
          Script,      \* thread -> the steps it emits, in order
          ResumeScript \* what the main thread emits on the resumed trace

Kind == {"capability_call", "state_transition", "no_op"}

\* waits: how many steps each thread has emitted before this one is built.
StepType == [key : Keys, kind : Kind, secret : BOOLEAN, waits : [Threads -> Nat]]

ASSUME ScriptsAssumption ==
  /\ "main" \in Threads /\ IsFiniteSet(Threads)
  /\ Script \in [Threads -> Seq(StepType)]
  /\ ResumeScript \in Seq(StepType)

\* A parallel department emits no key that anything else emits in this
\* process: its payload carries the department, the turn and the attempt.
ASSUME DisciplineAssumption ==
  \A t \in Threads \ {"main"} : \A i \in DOMAIN Script[t] :
    /\ \A u \in Threads : \A j \in DOMAIN Script[u] :
         Script[t][i].key = Script[u][j].key => t = u /\ i = j

\* The main thread emits no key twice while departments are under way: its steps are
\* then their admissions, each with its department.
ASSUME RepetitionAssumption ==
  \A i, j \in DOMAIN Script["main"] :
    i < j /\ Script["main"][i].key = Script["main"][j].key =>
      \A u \in Threads \ {"main"} :
        \/ Script["main"][i].waits[u] >= Len(Script[u])
        \/ \A k \in DOMAIN Script[u] : Script[u][k].waits["main"] >= i

VARIABLES
  sequence,   \* StepEmitter._sequence
  emitter,    \* 1 for run_pipeline's, 2 for resume_pipeline's
  emitted,    \* thread -> the steps it has finished emitting
  at,         \* thread -> where it is in emit_narrated
  number,     \* thread -> the sequence number of the step it emits
  slot,       \* thread -> len(target), read before the append
  trace,      \* run_context.step_trace
  positions,  \* StepTraceConsumer._positions, 0 for no entry
  seen,       \* OpenTelemetryStepConsumer._seen_runs holds the run
  telemetry,  \* what reached the sink
  published,  \* what passed the guard
  blocked     \* StepEmitter.blocked_errors

threadVars == <<emitted, at, number, slot>>
traceVars == <<trace, positions>>
otelVars == <<seen, telemetry>>
busVars == <<sequence, emitter, threadVars, traceVars, otelVars, published, blocked>>

Place == {"idle", "numbered", "placing", "appending", "root", "metering",
          "describing"}
Entry == [key : Keys, number : Nat, emitter : {1, 2}]

BusTypeOK ==
  /\ sequence \in Nat
  /\ emitter \in {1, 2}
  /\ emitted \in [Threads -> Nat]
  /\ at \in [Threads -> Place]
  /\ number \in [Threads -> 0 .. sequence]
  /\ slot \in [Threads -> 0 .. Len(trace)]
  /\ trace \in Seq(Entry)
  /\ positions \in [Keys -> 0 .. Len(trace)]
  /\ seen \in BOOLEAN
  /\ telemetry \in [roots : Nat, steps : Nat, spans : Nat, turns : Nat]
  /\ published \subseteq Entry
  /\ blocked \in Nat

NoTelemetry == [roots |-> 0, steps |-> 0, spans |-> 0, turns |-> 0]

BusInit ==
  /\ sequence = 0
  /\ emitter = 1
  /\ emitted = [t \in Threads |-> 0]
  /\ at = [t \in Threads |-> "idle"]
  /\ number = [t \in Threads |-> 0]
  /\ slot = [t \in Threads |-> 0]
  /\ trace = <<>>
  /\ positions = [k \in Keys |-> 0]
  /\ seen = FALSE
  /\ telemetry = NoTelemetry
  /\ published = {}
  /\ blocked = 0

-----------------------------------------------------------------------------
(* Who emits what.                                                          *)

Program(t) ==
  IF emitter = 1 THEN Script[t] ELSE IF t = "main" THEN ResumeScript ELSE <<>>

Finished(t) == emitted[t] = Len(Program(t))
Step(t) == Program(t)[emitted[t] + 1]
EntryOf(t) == [key |-> Step(t).key, number |-> number[t], emitter |-> emitter]

Goto(t, place) == at' = [at EXCEPT ![t] = place]

\* emit_narrated returns: the thread goes on with its work.
Return(t) ==
  /\ Goto(t, "idle")
  /\ emitted' = [emitted EXCEPT ![t] = @ + 1]

-----------------------------------------------------------------------------
(* StepEmitter.                                                             *)

\* emit_narrated: _next_sequence, then build_narrated_step with the number.
Number(t) ==
  /\ at[t] = "idle"
  /\ ~ Finished(t)
  /\ \A u \in Threads : emitted[u] >= Step(t).waits[u]
  /\ sequence' = sequence + 1
  /\ number' = [number EXCEPT ![t] = sequence']
  /\ Goto(t, "numbered")
  /\ UNCHANGED <<emitted, slot>>

Emit(t) ==
  /\ Number(t)
  /\ UNCHANGED <<emitter, traceVars, otelVars, published, blocked>>

\* emit: a step in which the guard finds a secret ends here, its number spent;
\* every other one is published.
Guard(t) ==
  /\ at[t] = "numbered"
  /\ IF Step(t).secret
     THEN /\ blocked' = blocked + 1
          /\ Return(t)
          /\ UNCHANGED published
     ELSE /\ published' = published \cup {EntryOf(t)}
          /\ Goto(t, "placing")
          /\ UNCHANGED <<emitted, blocked>>
  /\ UNCHANGED <<sequence, emitter, number, slot, traceVars, otelVars>>

-----------------------------------------------------------------------------
(* StepTraceConsumer, the first consumer.                                   *)

\* A key that is there is replaced in place.  Otherwise the length is read, and
\* the append happens after it.
Store(t) ==
  IF positions[Step(t).key] # 0
  THEN /\ trace' = [trace EXCEPT ![positions[Step(t).key]] = EntryOf(t)]
       /\ Goto(t, "root")
       /\ UNCHANGED slot
  ELSE /\ slot' = [slot EXCEPT ![t] = Len(trace)]
       /\ Goto(t, "appending")
       /\ UNCHANGED trace

Look(t) ==
  /\ at[t] = "placing"
  /\ Store(t)
  /\ UNCHANGED <<sequence, emitter, emitted, number, positions, otelVars,
                 published, blocked>>

\* The position is the length that was read, the entry goes to the end.
Append_(t) ==
  /\ at[t] = "appending"
  /\ positions' = [positions EXCEPT ![Step(t).key] = slot[t] + 1]
  /\ trace' = Append(trace, EntryOf(t))
  /\ Goto(t, "root")
  /\ UNCHANGED <<sequence, emitter, emitted, number, slot, otelVars,
                 published, blocked>>

-----------------------------------------------------------------------------
(* OpenTelemetryStepConsumer, the last consumer.  The sink may raise at      *)
(* every call; StepBus.publish then logs it and is done with this consumer.  *)

\* _emit_root_once: the run is marked before the span goes out, and a span
\* that fails is not repeated.
RootOnce(t) ==
  /\ seen' = TRUE
  /\ telemetry' \in {telemetry,
                     [telemetry EXCEPT !.roots = IF seen THEN @ ELSE @ + 1]}

Root(t) ==
  /\ at[t] = "root"
  /\ RootOnce(t)
  /\ \/ /\ seen \/ telemetry' # telemetry
        /\ Goto(t, "metering")
        /\ UNCHANGED emitted
     \/ /\ ~ seen
        /\ telemetry' = telemetry
        /\ Return(t)
  /\ UNCHANGED <<sequence, emitter, number, slot, traceVars, published, blocked>>

\* Mutant: a step whose telemetry failed is handed to the consumer again.
Redeliver(t) ==
  /\ at[t] \in {"metering", "describing"}
  /\ Goto(t, "root")
  /\ UNCHANGED <<sequence, emitter, emitted, number, slot, traceVars, otelVars,
                 published, blocked>>

\* The exception of a sink, swallowed by the bus.
Swallow(t) ==
  /\ at[t] \in {"metering", "describing"}
  /\ Return(t)
  /\ UNCHANGED <<sequence, emitter, number, slot, traceVars, otelVars,
                 published, blocked>>

\* _emit_step_metrics.
Meter(t) ==
  /\ at[t] = "metering"
  /\ telemetry' = [telemetry EXCEPT !.steps = @ + 1]
  /\ Goto(t, "describing")
  /\ UNCHANGED <<sequence, emitter, emitted, number, slot, traceVars, seen,
                 published, blocked>>

\* A turn of a group chat is an event on its department, the rest are spans.
Describe(t) ==
  /\ at[t] = "describing"
  /\ telemetry' = IF Step(t).kind = "no_op"
                  THEN [telemetry EXCEPT !.turns = @ + 1]
                  ELSE [telemetry EXCEPT !.spans = @ + 1]
  /\ Return(t)
  /\ UNCHANGED <<sequence, emitter, number, slot, traceVars, seen, published,
                 blocked>>

-----------------------------------------------------------------------------

\* Mutant: the positions of the resumed trace are off by one.
PositionsShifted(entries) ==
  [k \in Keys |-> LET i == SelectLastInSubSeq(entries, 1, Len(entries),
                                              LAMBDA e : e.key = k)
                  IN IF i > 1 THEN i - 1 ELSE i]

\* StepTraceConsumer.__init__: the last entry of a key wins.
PositionsOf(entries) ==
  [k \in Keys |-> SelectLastInSubSeq(entries, 1, Len(entries),
                                     LAMBDA e : e.key = k)]

\* resume_pipeline: a new emitter and new consumers on the exported trace.
Resume ==
  /\ emitter = 1
  /\ \A t \in Threads : at[t] = "idle" /\ Finished(t)
  /\ emitter' = 2
  /\ sequence' = 0
  /\ emitted' = [t \in Threads |-> 0]
  /\ positions' = PositionsOf(trace)
  /\ seen' = FALSE
  /\ telemetry' = NoTelemetry
  /\ blocked' = 0
  /\ number' = [t \in Threads |-> 0]
  /\ slot' = [t \in Threads |-> 0]
  /\ UNCHANGED <<at, trace, published>>

Advance(t) ==
  Emit(t) \/ Guard(t) \/ Look(t) \/ Append_(t) \/ Root(t) \/ Swallow(t)
          \/ Meter(t) \/ Describe(t)

BusNext == (\E t \in Threads : Advance(t)) \/ Resume

\* Every thread that can go on does; a run need not be resumed.
BusSpec == BusInit /\ [][BusNext]_busVars /\ \A t \in Threads : WF_busVars(Advance(t))

-----------------------------------------------------------------------------
(* What the trace promises.                                                 *)

Later(e, f) ==
  \/ e.emitter > f.emitter
  \/ e.emitter = f.emitter /\ e.number >= f.number

\* Past the trace consumer, or never bound for it.
Traced(e) ==
  \A t \in Threads :
    at[t] \in {"placing", "appending"} /\ ~ Finished(t) => EntryOf(t) # e

\* One emitter gives no number twice, although three threads ask it for
\* numbers at the same time (step ids are built from the number).
NumbersAreUnique ==
  /\ \A e, f \in published :
       e.emitter = f.emitter /\ e.number = f.number => e = f
  /\ \A t, u \in Threads :
       at[t] # "idle" /\ at[u] # "idle" /\ number[t] = number[u] => t = u

\* A step that was published and has passed the trace consumer is in the
\* trace, or a later step with its key is, and no key is there twice: neither
\* threads that append at the same time nor a resume that emits old keys again
\* make an entry disappear or double.
TraceKeepsSteps ==
  /\ \A e \in published :
       Traced(e) => \E i \in DOMAIN trace :
                      trace[i].key = e.key /\ Later(trace[i], e)
  /\ \A i, j \in DOMAIN trace : trace[i].key = trace[j].key => i = j

\* The telemetry of one emitter has one root span at most, whichever thread
\* emits the first step; what it describes it has counted, and what it has
\* counted was published.
OneRoot ==
  /\ telemetry.roots <= 1
  /\ telemetry.spans + telemetry.turns <= telemetry.steps
  /\ telemetry.steps <= Cardinality({e \in published : e.emitter = emitter})

\* The trace of a run is well-formed: every state has its type, the trace has the
\* steps that were emitted, numbered once each, and one root span holds them.
TraceIsSound == BusTypeOK /\ NumbersAreUnique /\ TraceKeepsSteps /\ OneRoot

\* Emitting a step always comes back to the caller, whatever the sink does.
EmissionsEnd == \A t \in Threads : []<>(at[t] = "idle")
=============================================================================
