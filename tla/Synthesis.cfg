SPECIFICATION Spec
CONSTANTS
  Members <- SynthesisMembers
  MaxTextTurns = 3
  MaxRound = 8
  MaxBundle = 2
  Findings <- FirstRounds
INVARIANTS
  ChatIsOrderly
  VerdictIsEarned
  FailuresBlock
PROPERTIES
  ChatEnds
CHECK_DEADLOCK FALSE
