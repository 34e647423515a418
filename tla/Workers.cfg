SPECIFICATION MCFairSpec
CONSTANTS
  Free = Free
  Convs = {"c1"}
  Tasks = {"one", "two"}
  MaxActive = 2
  MaxStops = 1
  Routes = 2
  MaxCrashes = 1
  MaxRestarts = 1
INVARIANTS Delivery AskRunsSafe PaidForWork InferenceOnce
PROPERTIES WorkEnds
CHECK_DEADLOCK FALSE
