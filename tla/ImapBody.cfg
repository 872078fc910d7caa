\* The fetch of a text or an attachment over a link that may break, with a
\* server that may be slow or refuse.  The wait ends, so a state may have no
\* successor.
SPECIFICATION Spec
CONSTANTS
    Bodies <- MCBodies
    Sizes = {0, 3, 6, 10, 12, 18, 25, 40}
    MaxChar = 16
    TagChars = 4
    TagBytes = 3
    Garbage = {0, 7}
CHECK_DEADLOCK FALSE
INVARIANTS
    TypeOK
    TextIsOwn
    FileIsPart
    SizeIsFile
    CutIsTold
