\* The claim that true means the server took the message.
SPECIFICATION Safe
CHECK_DEADLOCK FALSE
CONSTANTS
    ListLen <- MCListLen
    Attachments <- MCAttachments
    MultiLine <- MCMultiLine
    IndexMod = 4
    MaxSegments = 2
INVARIANTS
    TrueMeansAccepted
