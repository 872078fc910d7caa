\* Short lists and a counter that wraps around within them.
SPECIFICATION Spec
CONSTANTS
    Names = {a, b}
    IndexMod = 4
    MaxStrings = 1
    MaxAdds = 5
INVARIANTS
    TypeOK
    SoundUntilRemoval
PROPERTIES
    OtherTypeKept
    RemovesTheKth
    SendsAll
