\* Hashing with chunks of five bytes, directories of three entries, recipes of
\* two dependencies, strings of two characters, paths of five.
SPECIFICATION CommonSpec
CONSTANTS
    Chunk = 5
    LengthBytes = 2
    ReadSize = 3
    MaxBytes = 16
    EntryPaths <- SomePaths
    Contents <- SomeContents
    Buffer = 12
    MaxName = 4
    MaxFails = 1
    NumberBytes = 2
    HashBytes = 2
    Labels <- SomeLabels
    Hashes = {1, 2}
    MaxInputs = 2
    FirstCapacity = 4
    Buffers = {3}
    MaxErrors = 1
    Chars = {47, 97}
    PoolSlots = 1
    MaxHeld = 1
    MaxLen = 2
    Letters = {97}
    StackSize = 2
    Cwds <- SomeCwds
    MaxPath = 5
    MaxPart = 2
INVARIANTS
    DigestOfPadded
    HashIsOfArchive
    OneBufferRestores
    RecipeSurvives
    StringsSound
    PathMeans
PROPERTIES
    CommonCallsEnd
