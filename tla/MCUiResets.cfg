CONSTANT DebugStates <- DebugStatesDef
SPECIFICATION Spec
PROPERTY UiPutsIntoReset
CHECK_DEADLOCK FALSE
