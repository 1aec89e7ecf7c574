\* Strings of two characters, two of them in the pool and one outside.
SPECIFICATION Spec
CONSTANTS
    Chars = {47, 97}
    PoolSlots = 2
    MaxHeld = 1
    MaxLen = 2
INVARIANTS
    StringsSound
