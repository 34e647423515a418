SPECIFICATION Spec
INVARIANTS   ResultsSound
 
CHECK_DEADLOCK FALSE
