----------------------------- MODULE MCBriefing -----------------------------
(* Names and titles of up to two words; both forms of the domain argument.   *)
EXTENDS Briefing

BothArguments == DomainArgument
PipelineArgument == {"contract"}
=============================================================================
