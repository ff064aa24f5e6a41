SPECIFICATION Spec
CONSTANTS
 GroupSize = 2
 Overs = 3
 Balls = 1
 Wickets = 1
 Digits = {0, 1}
INVARIANTS RequestsAnswered LeaderHasMostWins 
PROPERTIES Finishes
CHECK_DEADLOCK FALSE
