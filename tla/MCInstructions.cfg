CONSTANTS
    ByteBits = 2
    Programs <- MCPrograms
SPECIFICATION Spec
INVARIANT StringsTerminated
PROPERTIES
    DestinationIsResult
    FlattenedComesBack
CHECK_DEADLOCK FALSE
