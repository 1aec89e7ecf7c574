\* A file of four bytes, and one write() that takes only a part of them.
SPECIFICATION Spec
CONSTANTS
    Paths <- OnePath
    Contents <- LikeALink
    Buffer = 16
    MaxName = 4
    MaxFails = 1
INVARIANTS
    SuccessRestores
