SPECIFICATION Spec
CONSTANTS
  Tasks <- MCTasks
  Amounts = {1, 2}
  OpeningGrant = 3
  Legacy <- MCLegacy
  MaxEvents = 4
INVARIANTS  SettledIsKept 
CHECK_DEADLOCK FALSE
