SPECIFICATION FairSpec
CONSTANTS
  MaxQueue = 2
INVARIANTS
  TypeOK
PROPERTIES
  AttemptFollowsInputAndIdle
  InhibitorHoldsBack
  EvaluationEnds
CHECK_DEADLOCK FALSE
