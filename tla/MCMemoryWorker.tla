-------------------------- MODULE MCMemoryWorker --------------------------
(***************************************************************************)
(* Five requests: one proposes a candidate, one reviews, two may accept at   *)
(* the same time or propose again, the last reads or records an event.       *)
(***************************************************************************)
EXTENDS MemoryWorker

Requests == 1 .. 5

SmallAsks ==
  <<{"propose"}, {"review"}, {"accept", "ops"}, {"accept", "propose"},
    {"query", "patterns", "event", "get"}>>
=============================================================================
