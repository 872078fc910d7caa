\* A small message over a link that may break at any point.  The call really
\* ends, so a state without a successor is no error.
SPECIFICATION Spec
CHECK_DEADLOCK FALSE
CONSTANTS
    ListLen <- MCListLen
    Attachments <- MCAttachments
    MultiLine <- MCMultiLine
    IndexMod = 4
    MaxSegments = 2
INVARIANTS
    TypeOK
    ReplyMatchesCommand
    EarlierGranted
    RetrySafe
PROPERTIES
    KeepsPromise
    Terminates
