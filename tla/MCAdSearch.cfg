CONSTANTS
  NumNodes = 2
  Tolerance = 1
  Tables <- MCTables
  Queries <- MCQueries
SPECIFICATION Spec
INVARIANTS
  AnswerAsSpecified
  PlacesOptimal
  NeverOvercharged
CHECK_DEADLOCK FALSE
