\* Up to four calls, with one kind of storage or both.  The calls are bounded,
\* so a state may have no successor.
SPECIFICATION Spec
CONSTANTS
    Mails <- MCMails
    Limit = 2
    MaxCalls = 4
CHECK_DEADLOCK FALSE
INVARIANTS
    TypeOK
    GettersAnswer
    ReasonIsOwn
    StorageReady
