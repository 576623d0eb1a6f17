SPECIFICATION Spec
CONSTANT Experiments <- MCExperiments
INVARIANTS BuffersBounded CauseReported
PROPERTIES ImplementsSerial Ends
CHECK_DEADLOCK FALSE
