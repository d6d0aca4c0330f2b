CONSTANTS
    Chunks <- MCChunks
    Children <- MCChildren
    Roots = {2, 3}
    Manifests = {1}
    NoRoot = NoRoot
    Callers = {p1, p2}
    Keys = {1, 2, 3, 4, 5}
    MinChunk = 2
    MaxChunk = 3
    PrefixSize = 2
    ChunkSize = 2
    MaxDisplacement = 3
    BucketRatio = 2
    HashRange = 8
    BloomSize = 4
    BloomHashes = 2
    WordSize = 3
    BitCount = 8
    MaxCalls = 2
    Capacity = 3
SPECIFICATION StructSpec
INVARIANTS HolesAccounted CopiedResolvable
INVARIANTS TreeReadsBack DiffIsExact
INVARIANTS  EdgesAreLive ReconcileSuffices
INVARIANTS ReprsAgree CheckpointRoundTrip
INVARIANTS SketchEstimates
PROPERTIES TransferEnds
