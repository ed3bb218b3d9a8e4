--------------------------- MODULE MCUserSession ---------------------------
(* Two people and two runs, within one second or two.                        *)
EXTENDS UserSession

SmallRuns == 1 .. 2
=============================================================================
