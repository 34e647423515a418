SPECIFICATION FairSpec
CONSTANTS
  NoOrder = NoOrder
  Commands <- MCCommands
  Others <- MCOthers
  MaxOperations = 4
  Ids = {"a", "b"}
  Actors = {"alice", "carol"}
  OwnOrders = {"order"}
  Closes = {9}
  Tries = 2
  MaxClock = 1
  MaxCrashes = 1
INVARIANTS RecordsAreTrue
PROPERTIES RetiredForGood PendingResolves
CHECK_DEADLOCK FALSE
