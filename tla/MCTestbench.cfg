CONSTANTS
  Json <- MCJson
  Reference <- MCReference
  Answers <- MCAnswers
  Percents = {998, 1000}
  Latencies = {40}
SPECIFICATION FairSpec
INVARIANTS
  TestbenchTypeOK
  MaxQpsIsSharp
  LaterScoresNeedEarlier
  ServiceScoreEarned
PROPERTIES
  Finishes
CHECK_DEADLOCK FALSE
