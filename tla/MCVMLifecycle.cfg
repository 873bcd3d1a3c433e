CONSTANT DebugStates <- DebugStatesDef
SPECIFICATION Spec
INVARIANTS ContractWithUi ProgramHeld
PROPERTIES ImplementsLife EndedBecomesIdle
CHECK_DEADLOCK FALSE
