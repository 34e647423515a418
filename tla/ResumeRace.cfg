SPECIFICATION Spec
CONSTANTS
  NoOrder = NoOrder
  Commands <- MCCommands
  Others <- MCOthers
  MaxOperations = 3
  Ids = {"a", "b"}
  Actors = {"alice", "carol"}
  OwnOrders = {NoOrder, "order"}
  Closes = {9}
  Tries = 2
  MaxClock = 0
  MaxCrashes = 0
INVARIANTS SupersededNotApplied
CHECK_DEADLOCK FALSE
