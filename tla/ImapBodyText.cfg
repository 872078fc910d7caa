\* The claim that a text holds nothing but the message.
SPECIFICATION Spec
CONSTANTS
    Bodies <- MCBodies
    Sizes = {0, 3, 6, 10, 12, 18, 25, 40}
    MaxChar = 16
    TagChars = 4
    TagBytes = 3
    Garbage = {0, 7}
CHECK_DEADLOCK FALSE
INVARIANTS
    TextOnly
