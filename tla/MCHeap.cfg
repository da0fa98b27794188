SPECIFICATION Spec
CONSTANTS
    Parts = {"move", "chunked", "copy", "code", "arrays"}
    HeapWords = 6
    HEAP_RESERVE = 1
    Kinds = {"OBJECT", "PORTAL", "MEMORY", "SERVICE", "ATOMVAR", "CPUSTATE", "VMOBJECT"}
    MaxAlloc = 3
    MaxStore = 2
    MaxEpoch = 2
    Heaps = {"d1", "d2"}
    Limit = 18
    InitialWords = 4
    ChunkWords = 5
    CollectAt = 5
    ObjectSizes = {2}
    Slots = {1, 2, 3, 4, 5}
    Nodes <- MCNodes
    Root = 1
    Graphs <- MCGraphs
    Builds = {"recursive", "marking"}
    QUOTA = 5
    MAX_COPIED = 3
    MaxCollections = 2
    MemoryCollects = FALSE
    SourceCollects = {"recursive"}
    CodeDomains = {"d0", "d1"}
    Block = 8
    Memory = 7
    CodeBytes = 16
    CODE_FRAGMENTS = 2
    IBUFFER = 4
    Lengths = {3, 13}
    MaxTemps = 1
    MaxRecords = 3
    Bases = {1, 2}
    MaxDepth = 3
    Dims <- MCDims
    MaxClasses = 9
    MaxGc = 3
INVARIANTS CollectionRight ChunksAccounted CopyRight CodeMemorySound ArraysWhole
CHECK_DEADLOCK FALSE
