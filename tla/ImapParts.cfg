\* The claim that every attachment of a mail is counted.
SPECIFICATION Safe
CHECK_DEADLOCK FALSE
CONSTANTS
    Asks <- TwoMultis
INVARIANTS
    AllAttachmentsCounted
