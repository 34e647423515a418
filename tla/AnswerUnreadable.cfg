SPECIFICATION ResultSpec
CONSTANTS
  Sealed = 1
  Retention = 2
  EntryLife = 2
  Grace = 3
  ProviderKeep = 2
  MemoryLife = 1
  Orders = {}
  Operation = 0
  MaxTime = 3
  MaxChanges = 2
  MaxTrouble = 1
INVARIANT AwaitedIsReadable
CHECK_DEADLOCK FALSE
