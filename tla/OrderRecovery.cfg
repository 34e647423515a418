SPECIFICATION Spec
CONSTANTS
  Routes = 2
  MaxCrashes = 1
  MaxRestarts = 1
INVARIANTS RecoveryCompletes
CHECK_DEADLOCK FALSE
