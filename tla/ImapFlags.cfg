\* A change of flags over a link that may break, with a server that may be
\* slow, refuse or stop.  A call ends, so a state may have no successor.
SPECIFICATION Spec
CHECK_DEADLOCK FALSE
INVARIANTS
    TypeOK
    TrueMeansStored
PROPERTIES
    EndsOrPolls
