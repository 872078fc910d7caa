SPECIFICATION Spec
CONSTANTS
    Mailbox = 4
    Replies <- MCReplies
    Limits = {0, 1, 2, 3, 5}
    LimitMax = 3
    SizeMax = 1000
INVARIANTS
    TypeOK
    WithinLimit
    LatestFirst
    ServerOrder
    CountCovers
CHECK_DEADLOCK FALSE
