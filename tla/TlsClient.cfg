\* Connections tried one after the other, over a network that may fail at any
\* step.  The tries are bounded, so a state may have no successor.
SPECIFICATION Spec
CONSTANTS
    Sizes <- MCSizes
    MaxRecord = 2
    Word = 8
    MaxPieces = 2
    MaxWrites = 2
    MaxConnects = 2
CHECK_DEADLOCK FALSE
INVARIANTS
    TypeOK
    Released
PROPERTIES
    IsLink
