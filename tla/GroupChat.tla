------------------------------ MODULE GroupChat ------------------------------
(***************************************************************************)
(* Who speaks next in a group chat: the guardrail selectors of              *)
(* orchestration/speaker_selector.py.  The department's and the synthesis    *)
(* selector differ in their members only.                                   *)
(***************************************************************************)
EXTENDS Naturals, Sequences, SequencesExt

CONSTANTS Members,       \* the roles the lead addresses, in routing order
          MaxTextTurns   \* text turns in a row before the loop guard

ASSUME MembersAssumption ==
  /\ Members \in Seq(STRING) /\ Members # <<>>
  /\ \A i \in DOMAIN Members : Members[i] \notin {"lead", "executor"}
  /\ MaxTextTurns \in Nat \ {0}

Roles == ToSet(Members) \cup {"lead", "executor"}

\* A message is a text that names some members, a bundle of tool calls, or the
\* results of one.  final: it contains TERMINATE.
Text(named, final) == [kind |-> "text", named |-> named, final |-> final]
Calls(bundle)      == [kind |-> "calls", bundle |-> bundle, final |-> FALSE]
Result(final)      == [kind |-> "result", final |-> final]

NoTurns == [m \in ToSet(Members) |-> 0]

Counted(turns, speaker, message) ==
  CASE message.kind = "calls" ->
         [m \in ToSet(Members) |-> IF m = speaker THEN 0 ELSE turns[m]]
    [] message.kind # "calls" /\ speaker = "executor" -> turns
    [] message.kind # "calls" /\ speaker = "lead" -> NoTurns
    [] OTHER -> [turns EXCEPT ![speaker] = IF @ + 1 >= MaxTextTurns THEN 0 ELSE @ + 1]

\* The first member the lead names, else the first member.
Addressed(message) ==
  LET named == SelectSeq(Members, LAMBDA m : m \in message.named)
  IN IF named = <<>> THEN Head(Members) ELSE Head(named)

\* Tool calls go to the executor, its results and every text of a member to the
\* lead, the lead's texts to whom it addresses.  (A final message ends the chat
\* before anybody is selected.)
NextSpeaker(speaker, message) ==
  CASE message.kind = "calls" -> "executor"
    [] message.kind = "text" /\ speaker = "lead" -> Addressed(message)
    [] OTHER -> "lead"
=============================================================================
