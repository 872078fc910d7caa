\* The loop ends, so a state without a successor is no error.
SPECIFICATION StreamSpec
CHECK_DEADLOCK FALSE
CONSTANT
    Sizes <- MCSizes
INVARIANTS
    StreamTypeOK
    GroupFits
    LineFits
    AllWritten
