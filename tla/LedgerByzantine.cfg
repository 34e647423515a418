SPECIFICATION Spec
CONSTANTS
  v1 = v1
  v2 = v2
  v3 = v3
  v4 = v4
  owner = owner
  NoOrder = NoOrder
  Roster <- MCRoster
  Observers = {}
  Byzantine = {v1}
  Commands <- ByzantineCommands
  MaxOperations = 2
  ClockSkew = 1
  MaxClock = 1
INVARIANTS Agreement ReplaySucceeds NoDoubleSpend TimelyApproval
PROPERTIES LocksAreDurable ImplementsLog
CHECK_DEADLOCK FALSE
