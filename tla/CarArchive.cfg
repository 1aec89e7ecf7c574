\* Archives of more than one buffer; no call fails.
SPECIFICATION Spec
CONSTANTS
    Paths <- SomePaths
    Contents <- SomeContents
    Buffer = 8
    MaxName = 4
    MaxFails = 0
INVARIANTS
    ExtractRestores
